---- MODULE Spec2Model ----
(***************************************************************************)
(* Model of the Epson TM impact-slip raster filter (rastertotmis),         *)
(* src/Impact Slip/filter/TmImpactSlip.c: the job/page sequencer, the      *)
(* margin detector, the band transposer, the data sanitizer, the feed      *)
(* calculator and the sink writer.                                         *)
(***************************************************************************)
EXTENDS Integers, Sequences, FiniteSets, TLC

VARIABLES
    pc,             \* position of main/DoJob/DoPage/WriteRaster
    g_TmCanceled,   \* the global cancellation flag (0 or 1)
    env,            \* the process environment: argc, PPD file, user files
    Config,         \* EPTMS_CONFIG_T
    pageHeader,     \* JobInfo.pageHeader
    p_pageBuffer,   \* JobInfo.p_pageBuffer: [valid, size, mem]
    rasterIn,       \* scanlines of the current page still held by the raster stream
    pages,          \* number of page headers read so far (DoJob's page counter)
    i,              \* ReadRaster's scanline index
    line_no,        \* WriteRaster's band cursor
    start_line_no,  \* WriteRaster: first raster line without top blank
    last_line_no,   \* WriteRaster: one past the last non-blank raster line
    result,         \* DoJob's / main's result code
    exitStatus,     \* value returned by main (meaningful when pc = "Done")
    out,            \* bytes accepted by the sink (stdout), in order
    log,            \* history: the FeedPaper / WriteBand calls made so far
    calls,          \* history: number of WriteData calls made so far
    faults,         \* number of write calls that met a non-plain sink so far
    sinkFailed,     \* history: a WriteData call failed for a reason other than EINTR
    observed,       \* history: the check point at which the flag was first seen set
    resultAtObs,    \* history: DoJob's result when the flag was first seen set
    wd              \* WriteData under test: [buf, script, res]

vars == <<pc, g_TmCanceled, env, Config, pageHeader, p_pageBuffer, rasterIn, pages,
          i, line_no, start_line_no, last_line_no, result, exitStatus, out, log,
          calls, faults, sinkFailed, observed, resultAtObs, wd>>

(***************************************************************************)
(* Program constants.                                                      *)
(***************************************************************************)
EPTMD_SUCCESS == 0
EPTMD_FAILED == -1
EPTMD_CANCEL == -2
ESC == 27
GS == 29
FF == 12
MaxBandLines == 8
BandHeight == 8
FeedMax == 255
UserFileChunk == 1024
UIntTop == 2147483647

(***************************************************************************)
(* Bounds of the model.                                                    *)
(***************************************************************************)
MaxPages == 2       \* page headers the raster stream holds at most
MaxFaults == 1      \* write calls of one job that meet a non-plain sink
MaxHeight == 9      \* scanlines of a page in the page-level specification
MaxFeeds == 3       \* FeedPaper calls in the feed specification
MaxCount == 9       \* scanline count of one FeedPaper call in the feed specification
MaxSize == 3        \* buffer size in the WriteData specification
MaxScript == 3      \* sink events listed for one WriteData call
MaxBpl == 2         \* bytes per line in the band specification
MaxPattern == 2     \* length of a byte pattern planted in a band's transposed data
MaxWide == 3        \* scanlines of a two-byte-wide page in the page-level specification

(***************************************************************************)
(* Byte arithmetic.                                                        *)
(***************************************************************************)
Min(a, b) == IF a < b THEN a ELSE b

Pow2(n) == 2 ^ n

Shr(v, n) == v \div Pow2(n)

Shl(v, n) == v * Pow2(n)

RECURSIVE BitAnd(_, _)
BitAnd(a, b) ==
    IF a = 0 \/ b = 0 THEN 0
    ELSE (a % 2) * (b % 2) + 2 * BitAnd(a \div 2, b \div 2)

RECURSIVE BitOr(_, _)
BitOr(a, b) ==
    IF a = 0 THEN b
    ELSE IF b = 0 THEN a
    ELSE (IF (a % 2) + (b % 2) > 0 THEN 1 ELSE 0) + 2 * BitOr(a \div 2, b \div 2)

RECURSIVE Concat(_)
Concat(ss) == IF ss = <<>> THEN <<>> ELSE Head(ss) \o Concat(Tail(ss))

RECURSIVE SumSeq(_)
SumSeq(s) == IF s = <<>> THEN 0 ELSE Head(s) + SumSeq(Tail(s))

Zeros(n) == [k \in 1..n |-> 0]

(***************************************************************************)
(* WriteData (lines 1009-1030).  The sink is a script of results of the    *)
(* first write(2) calls, each [ret, errno]; once the script is used up     *)
(* every write accepts all it is given.  A positive ret is capped by the   *)
(* number of bytes offered.  count is an unsigned int, so the "continue"   *)
(* on EINTR still runs the loop's "count += result" with result = -1:      *)
(* count steps back by one, and from 0 it wraps to UINT_MAX.  UIntTop      *)
(* stands for UINT_MAX (TLC's integers are 32-bit signed); like UINT_MAX   *)
(* it is above every buffer size.                                          *)
(* Returns the result code, the bytes the sink accepted, and for each      *)
(* write(2) call the offset it started at and the bytes accepted before.   *)
(***************************************************************************)
Accept(n) == [ret |-> n, errno |-> "none"]
Eintr == [ret |-> -1, errno |-> "EINTR"]
Eio == [ret |-> -1, errno |-> "EIO"]

AddUInt(count, n) == IF count + n < 0 THEN UIntTop + (count + n + 1) ELSE count + n

RECURSIVE WriteLoop(_, _, _, _, _)
WriteLoop(buf, script, count, sunk, tries) ==
    LET size == Len(buf) IN
    IF ~(size > count)
    THEN [res |-> IF count = size THEN EPTMD_SUCCESS ELSE EPTMD_FAILED,
          sunk |-> sunk, tries |-> tries, hard |-> FALSE]
    ELSE LET ev == IF script = <<>> THEN Accept(size - count) ELSE Head(script)
             rest == IF script = <<>> THEN <<>> ELSE Tail(script)
             got == IF ev.ret > 0 THEN Min(ev.ret, size - count) ELSE ev.ret
             try == [at |-> count, sunk |-> Len(sunk),
                     after |-> IF tries = <<>> THEN "start"
                               ELSE tries[Len(tries)].ev,
                     ev |-> IF ev.ret >= 0 THEN "ok" ELSE ev.errno]
             tries2 == Append(tries, try)
         IN IF got = 0
            THEN [res |-> IF count = size THEN EPTMD_SUCCESS ELSE EPTMD_FAILED,
                  sunk |-> sunk, tries |-> tries2, hard |-> TRUE]
            ELSE IF got < 0
            THEN IF ev.errno = "EINTR"
                 THEN WriteLoop(buf, rest, AddUInt(count, got), sunk, tries2)
                 ELSE [res |-> -1, sunk |-> sunk, tries |-> tries2, hard |-> TRUE]
            ELSE WriteLoop(buf, rest, AddUInt(count, got),
                           sunk \o SubSeq(buf, count + 1, count + got), tries2)

WriteData(buf, script) == WriteLoop(buf, script, 0, <<>>, <<>>)

(***************************************************************************)
(* FeedPaper (lines 976-1004): the distance is the integral part of        *)
(* num_line * v_motionUnit / HWResolution[1]; the fractional part that     *)
(* modf returns is dropped.  FeedPoint is "point", FeedCommands the        *)
(* ESC J commands the two loops hand to WriteData.  The product stays far  *)
(* below 2^32 for every page of the model, so it does not wrap, and the    *)
(* quotient of two such integers is exact in a double.                     *)
(***************************************************************************)
FeedPoint(v_motionUnit, resolution, num_line) ==
    (num_line * v_motionUnit) \div resolution

FeedCommands_SingleCommand(point) ==
    IF FeedMax < point THEN <<<<ESC, 74, FeedMax>>>>
    ELSE IF 0 < point THEN <<<<ESC, 74, point>>>>
    ELSE <<>>

RECURSIVE FeedCommands(_)
FeedCommands(point) ==
    IF FeedMax < point THEN <<<<ESC, 74, FeedMax>>>> \o FeedCommands(point - FeedMax)
    ELSE IF 0 < point THEN <<<<ESC, 74, point>>>>
    ELSE <<>>

FeedPaper(v_motionUnit, resolution, num_line) ==
    FeedCommands(FeedPoint(v_motionUnit, resolution, num_line))

(***************************************************************************)
(* The page buffer is a flat byte array; mem[k + 1] is the byte at offset  *)
(* k.  RowByte is p_data[x] with p_data = base + cupsBytesPerLine * row.   *)
(***************************************************************************)
RowByte(mem, bpl, row, x) == mem[bpl * row + x + 1]

RowIsBlack(mem, bpl, row) == \E x \in 0..(bpl - 1) : RowByte(mem, bpl, row, x) # 0

(***************************************************************************)
(* FindBlackRasterLineTop (lines 796-813) and FindBlackRasterLineEnd       *)
(* (lines 818-835).                                                        *)
(***************************************************************************)
RECURSIVE FindTopFrom(_, _, _, _)
FindTopFrom(mem, bpl, height, y) ==
    IF ~(y < height) THEN height
    ELSE IF RowIsBlack(mem, bpl, y) THEN y
    ELSE FindTopFrom(mem, bpl, height, y + 1)

FindBlackRasterLineTop(header, mem) ==
    FindTopFrom(mem, header.cupsBytesPerLine, header.cupsHeight, 0)

RECURSIVE FindEndFrom(_, _, _, _)
FindEndFrom(mem, bpl, height, y) ==
    IF ~(y < height) THEN 0
    ELSE IF RowIsBlack(mem, bpl, height - 1 - y) THEN height - 1 - y
    ELSE FindEndFrom(mem, bpl, height, y + 1)

FindBlackRasterLineEnd_FirstNotLast(header, mem) ==
    FindTopFrom(mem, header.cupsBytesPerLine, header.cupsHeight, 0)

FindBlackRasterLineEnd(header, mem) ==
    FindEndFrom(mem, header.cupsBytesPerLine, header.cupsHeight, 0)

(***************************************************************************)
(* WriteBand's "Make send-data" block (lines 858-884).  base is the row    *)
(* p_data points at.  PinBit is one of the eight guarded statements: the   *)
(* contribution of scanline k to send byte (x, bit).                       *)
(***************************************************************************)
PinBit_BitOrderSwapped(mem, bpl, base, k, x, bit) ==
    BitAnd(Shl(Shr(RowByte(mem, bpl, base + k, x), bit), 7 - k), Pow2(7 - k))

PinBit(mem, bpl, base, k, x, bit) ==
    BitAnd(Shl(Shr(RowByte(mem, bpl, base + k, x), 7 - bit), 7 - k), Pow2(7 - k))

RECURSIVE SendByteFrom(_, _, _, _, _, _, _, _)
SendByteFrom(mem, bpl, base, lines, x, bit, k, acc) ==
    IF k = BandHeight THEN acc
    ELSE SendByteFrom(mem, bpl, base, lines, x, bit, k + 1,
                      IF k + 1 <= lines
                      THEN (IF k = 0 THEN PinBit(mem, bpl, base, k, x, bit)
                            ELSE BitOr(acc, PinBit(mem, bpl, base, k, x, bit)))
                      ELSE acc)

MakeSendData(mem, bpl, base, lines) ==
    [index \in 1..(bpl * BandHeight) |->
        SendByteFrom(mem, bpl, base, lines,
                     (index - 1) \div 8, (index - 1) % 8, 0, 0)]

(***************************************************************************)
(* AvoidDisturbingData (lines 772-791).  The loop variable i is declared   *)
(* without an initial value, so the scan starts at an indeterminate index  *)
(* i0.  Every i0 with i0 + 1 >= data_size leaves the data untouched.       *)
(***************************************************************************)
RECURSIVE AvoidLoop(_, _, _, _)
AvoidLoop(data, off, data_size, idx) ==
    IF ~((idx + 1) < data_size) THEN data
    ELSE LET cur == data[off + idx + 1]
             nxt == data[off + idx + 2]
             new == IF cur = 16
                    THEN (IF nxt = 4 \/ nxt = 5 \/ nxt = 20 THEN 48 ELSE cur)
                    ELSE IF cur = 27
                    THEN (IF nxt = 61 THEN 59 ELSE cur)
                    ELSE cur
         IN AvoidLoop([data EXCEPT ![off + idx + 1] = new], off, data_size, idx + 1)

AvoidDisturbingData(bpl, data, start_line, last_line, i0) ==
    AvoidLoop(data, bpl * start_line, (last_line - start_line) * bpl, i0)

(***************************************************************************)
(* WriteBand (lines 840-897): the command header, the transposed data      *)
(* before and after AvoidDisturbingData, and the feed of 8 lines.  The     *)
(* result depends on the indeterminate start index of the sanitizer's      *)
(* scan, so WriteBand is the set of the results the call can have.         *)
(***************************************************************************)
BandCommand(header) ==
    <<ESC, 42, 1, BitAnd(header.cupsWidth, 255), BitAnd(Shr(header.cupsWidth, 8), 255)>>

WriteBand_FeedsBandLines(cfg, header, mem, base, lines) ==
    {[cmd |-> BandCommand(header),
      raw |-> raw,
      data |-> AvoidDisturbingData(header.cupsBytesPerLine, raw, 0, BandHeight, i0),
      feed |-> FeedPaper(cfg.v_motionUnit, header.HWResolution1, lines)] :
        raw \in {MakeSendData(mem, header.cupsBytesPerLine, base, lines)},
        i0 \in 0..(header.cupsBytesPerLine * BandHeight)}

WriteBand(cfg, header, mem, base, lines) ==
    {[cmd |-> BandCommand(header),
      raw |-> raw,
      data |-> AvoidDisturbingData(header.cupsBytesPerLine, raw, 0, BandHeight, i0),
      feed |-> FeedPaper(cfg.v_motionUnit, header.HWResolution1, BandHeight)] :
        raw \in {MakeSendData(mem, header.cupsBytesPerLine, base, lines)},
        i0 \in 0..(header.cupsBytesPerLine * BandHeight)}

(***************************************************************************)
(* Values of main's locals right after "JobInfo = {0}; Config = {0}"       *)
(* (lines 137-140), and of the history variables before anything ran.      *)
(***************************************************************************)
NullBuffer == [valid |-> FALSE, size |-> 0, mem |-> <<>>]

ZeroHeader ==
    [cupsBitsPerPixel |-> 0, cupsBytesPerLine |-> 0, cupsHeight |-> 0,
     cupsWidth |-> 0, HWResolution1 |-> 0]

ZeroConfig ==
    [h_motionUnit |-> 0, v_motionUnit |-> 0,
     paperReduction |-> "TmPaperReductionOff",
     buzzerControl |-> "TmBuzzerNotUsed",
     drawerControl |-> "TmDrawerNotUsed",
     maxBandLines |-> 0]

NoRes == [res |-> 0, sunk |-> <<>>, tries |-> <<>>, hard |-> FALSE]

NoWd == [buf |-> <<>>, script |-> <<>>, res |-> NoRes]

Fresh ==
    /\ g_TmCanceled = 0
    /\ rasterIn = <<>>
    /\ pages = 0
    /\ i = 0
    /\ line_no = 0
    /\ start_line_no = 0
    /\ last_line_no = 0
    /\ result = EPTMD_SUCCESS
    /\ exitStatus = 0
    /\ out = <<>>
    /\ log = <<>>
    /\ calls = 0
    /\ faults = 0
    /\ sinkFailed = FALSE
    /\ observed = "none"
    /\ resultAtObs = 0

(***************************************************************************)
(* The process environment.  The PPD gives the two motion-unit attributes  *)
(* (present or not, with the long that atol returns for the value) and    *)
(* the two marked choices ("NULL": none marked).  A long is written        *)
(* high * 2^32 + low; high is not 0 only where long has 64 bits.  A user   *)
(* file is absent (ENOENT), unreadable (open fails with EACCES, or the     *)
(* first read fails with EIO) or holds data.                               *)
(***************************************************************************)
Long(v) == [high |-> 0, low |-> v]

DefaultPPD ==
    [hasHori |-> TRUE, hori |-> Long(255), hasVert |-> TRUE, vert |-> Long(1),
     reduction |-> "Off", buzzer |-> "NotUsed"]

Absent == [state |-> "ENOENT", data |-> <<>>]

NoFiles == [StartJob |-> Absent, EndJob |-> Absent, StartPage |-> Absent, EndPage |-> Absent]

DefaultEnv ==
    [argc |-> 6, input |-> "ok", ppdState |-> "ok", ppd |-> DefaultPPD, files |-> NoFiles]

ToUInt(v) == IF v < 0 THEN UIntTop + (v + 1) ELSE v

\* (unsigned)atol(...): the conversion keeps the low 32 bits of the long.
UnsignedOfLong(l) == ToUInt(l.low)

(***************************************************************************)
(* GetParameters (lines 283-322) with GetModelSpecificFromPPD (327-353),   *)
(* GetPaperReductionFromPPD (358-380), GetBuzzerAndDrawerFromPPD (385-411):*)
(* the result code and the configuration as far as it was filled in.       *)
(***************************************************************************)
GetModelSpecificFromPPD(ppd, cfg) ==
    IF ~ppd.hasHori THEN [code |-> 4101, cfg |-> cfg]
    ELSE LET c1 == [cfg EXCEPT !.h_motionUnit = UnsignedOfLong(ppd.hori)] IN
         IF c1.h_motionUnit = 0 \/ 255 < c1.h_motionUnit THEN [code |-> 4102, cfg |-> c1]
         ELSE IF ~ppd.hasVert THEN [code |-> 4103, cfg |-> c1]
         ELSE LET c2 == [c1 EXCEPT !.v_motionUnit = UnsignedOfLong(ppd.vert)] IN
              IF c2.v_motionUnit = 0 \/ 255 < c2.v_motionUnit
              THEN [code |-> 4104, cfg |-> c2]
              ELSE [code |-> EPTMD_SUCCESS, cfg |-> c2]

GetPaperReductionFromPPD(ppd, cfg) ==
    IF ppd.reduction = "NULL" THEN [code |-> 4201, cfg |-> cfg]
    ELSE IF ppd.reduction = "Off"
    THEN [code |-> EPTMD_SUCCESS, cfg |-> [cfg EXCEPT !.paperReduction = "TmPaperReductionOff"]]
    ELSE IF ppd.reduction = "Top"
    THEN [code |-> EPTMD_SUCCESS, cfg |-> [cfg EXCEPT !.paperReduction = "TmPaperReductionTop"]]
    ELSE IF ppd.reduction = "Bottom"
    THEN [code |-> EPTMD_SUCCESS,
          cfg |-> [cfg EXCEPT !.paperReduction = "TmPaperReductionBottom"]]
    ELSE IF ppd.reduction = "Both"
    THEN [code |-> EPTMD_SUCCESS, cfg |-> [cfg EXCEPT !.paperReduction = "TmPaperReductionBoth"]]
    ELSE [code |-> 4202, cfg |-> cfg]

GetBuzzerAndDrawerFromPPD(ppd, cfg) ==
    IF ppd.buzzer = "NULL" THEN [code |-> 4301, cfg |-> cfg]
    ELSE IF ppd.buzzer = "NotUsed"
    THEN [code |-> EPTMD_SUCCESS,
          cfg |-> [cfg EXCEPT !.buzzerControl = "TmBuzzerNotUsed",
                              !.drawerControl = "TmDrawerNotUsed"]]
    ELSE IF ppd.buzzer = "InternalBuzzer"
    THEN [code |-> EPTMD_SUCCESS, cfg |-> [cfg EXCEPT !.buzzerControl = "TmBuzzerInternal"]]
    ELSE IF ppd.buzzer = "ExternalBuzzer"
    THEN [code |-> EPTMD_SUCCESS, cfg |-> [cfg EXCEPT !.buzzerControl = "TmBuzzerExternal"]]
    ELSE IF ppd.buzzer = "OpenDrawer1"
    THEN [code |-> EPTMD_SUCCESS, cfg |-> [cfg EXCEPT !.drawerControl = "TmDrawer1"]]
    ELSE IF ppd.buzzer = "OpenDrawer2"
    THEN [code |-> EPTMD_SUCCESS, cfg |-> [cfg EXCEPT !.drawerControl = "TmDrawer2"]]
    ELSE [code |-> 4302, cfg |-> cfg]

GetParameters(ppd, cfg) ==
    LET m == GetModelSpecificFromPPD(ppd, cfg) IN
    IF m.code # EPTMD_SUCCESS THEN m
    ELSE LET r == GetPaperReductionFromPPD(ppd, m.cfg) IN
         IF r.code # EPTMD_SUCCESS THEN r
         ELSE GetBuzzerAndDrawerFromPPD(ppd, r.cfg)

(***************************************************************************)
(* A function's output as a plan: the WriteData calls it makes in order,   *)
(* each with the code the function returns when that call fails, and the   *)
(* steps that fail without writing (a user file that cannot be read).      *)
(* RunPlan makes the calls until one fails.  The sink is plain (accepts    *)
(* all it is offered) except for write call number f, which meets script   *)
(* s.  It returns the code (0: all succeeded), the bytes the sink took,    *)
(* the number of calls made and of calls that succeeded, whether the       *)
(* failure was a write error other than EINTR, and whether call f was made.*)
(***************************************************************************)
Write(buf, code) == [kind |-> "write", buf |-> buf, code |-> code]

FailStep(code) == [kind |-> "fail", buf |-> <<>>, code |-> code]

NoRun == [code |-> EPTMD_SUCCESS, sunk |-> <<>>, calls |-> 0, done |-> 0,
          hard |-> FALSE, used |-> FALSE]

RECURSIVE RunFrom(_, _, _, _)
RunFrom(plan, f, s, acc) ==
    IF plan = <<>> THEN acc
    ELSE LET it == Head(plan) IN
         IF it.kind = "fail" THEN [acc EXCEPT !.code = it.code]
         ELSE LET nth == acc.calls + 1
                  r == WriteData(it.buf, IF nth = f THEN s ELSE <<>>)
                  ok == r.res = EPTMD_SUCCESS
                  acc2 == [code |-> IF ok THEN EPTMD_SUCCESS ELSE it.code,
                           sunk |-> acc.sunk \o r.sunk,
                           calls |-> nth,
                           done |-> acc.done + (IF ok THEN 1 ELSE 0),
                           hard |-> (~ok) /\ r.hard,
                           used |-> acc.used \/ (nth = f /\ s # <<>>)]
              IN IF ok THEN RunFrom(Tail(plan), f, s, acc2) ELSE acc2

RunPlan(plan, f, s) == RunFrom(plan, f, s, NoRun)

JobScripts == {<<Eio>>, <<Accept(0)>>, <<Eintr>>, <<Accept(1), Eintr>>}

\* The results a plan can have in the current state.
Runs(plan) ==
    {RunPlan(plan, 0, <<>>)}
    \cup IF faults < MaxFaults
         THEN {r \in {RunPlan(plan, f, s) : f \in 1..Len(plan), s \in JobScripts} : r.used}
         ELSE {}

Emit(r) ==
    /\ out' = out \o r.sunk
    /\ calls' = calls + r.calls
    /\ faults' = faults + (IF r.used THEN 1 ELSE 0)
    /\ sinkFailed' = (sinkFailed \/ r.hard)

NoEmit == UNCHANGED <<out, calls, faults, sinkFailed>>

Observe(where) ==
    /\ observed' = IF observed = "none" THEN where ELSE observed
    /\ resultAtObs' = IF observed = "none" THEN result ELSE resultAtObs

NoObserve == UNCHANGED <<observed, resultAtObs>>

(***************************************************************************)
(* WriteUserFile (lines 902-946) with ReadUserFile (951-971): nothing for  *)
(* an absent file, a failure for one that cannot be opened or read, else   *)
(* one WriteData call per chunk of up to 1024 bytes.                       *)
(***************************************************************************)
RECURSIVE Chunks(_, _)
Chunks(data, code) ==
    IF data = <<>> THEN <<>>
    ELSE <<Write(SubSeq(data, 1, Min(Len(data), UserFileChunk)), code)>>
         \o Chunks(SubSeq(data, Min(Len(data), UserFileChunk) + 1, Len(data)), code)

WriteUserFile(file, code) ==
    IF file.state = "ENOENT" THEN <<>>
    ELSE IF file.state = "ok" THEN Chunks(file.data, code)
    ELSE <<FailStep(code)>>

(***************************************************************************)
(* Specification of WriteData alone: the buffer and the sink's script are  *)
(* drawn, the call is made.                                                *)
(***************************************************************************)
SinkEvents == {Accept(0), Accept(1), Accept(2), Eintr, Eio}

RECURSIVE SeqsUpTo(_, _)
SeqsUpTo(S, n) ==
    IF n = 0 THEN {<<>>}
    ELSE LET shorter == SeqsUpTo(S, n - 1)
         IN shorter \cup {Append(q, e) : q \in {r \in shorter : Len(r) = n - 1}, e \in S}

TestBuffer(size) == [k \in 1..size |-> 64 + k]

InitWrite ==
    /\ Fresh
    /\ pc = "WriteData"
    /\ env = DefaultEnv
    /\ Config = ZeroConfig
    /\ pageHeader = ZeroHeader
    /\ p_pageBuffer = NullBuffer
    /\ \E size \in 0..MaxSize, script \in SeqsUpTo(SinkEvents, MaxScript) :
           wd = [buf |-> TestBuffer(size), script |-> script, res |-> NoRes]

CallWriteData ==
    /\ pc = "WriteData"
    /\ LET r == WriteData(wd.buf, wd.script) IN
        /\ wd' = [wd EXCEPT !.res = r]
        /\ out' = out \o r.sunk
        /\ calls' = calls + 1
        /\ sinkFailed' = r.hard
        /\ result' = r.res
    /\ pc' = "Returned"
    /\ UNCHANGED <<g_TmCanceled, env, Config, pageHeader, p_pageBuffer, rasterIn, pages,
                   i, line_no, start_line_no, last_line_no, exitStatus, log, faults,
                   observed, resultAtObs>>

NextWrite == CallWriteData

SpecWrite == InitWrite /\ [][NextWrite]_vars

(***************************************************************************)
(* Specification of the feed calculator alone: FeedPaper is called up to   *)
(* MaxFeeds times for one page, every write succeeding.                    *)
(***************************************************************************)
FeedUnits == {1, 10, 255}
FeedResolutions == {1, 2, 72, 203}

FeedEntry(n) == [op |-> "FeedPaper", n |-> n, at |-> 0, raw |-> <<>>, data |-> <<>>]

InitFeed ==
    /\ Fresh
    /\ pc = "FeedPaper"
    /\ env = DefaultEnv
    /\ \E mu \in FeedUnits :
           Config = [ZeroConfig EXCEPT !.v_motionUnit = mu, !.maxBandLines = MaxBandLines]
    /\ \E r \in FeedResolutions :
           pageHeader = [ZeroHeader EXCEPT !.cupsBitsPerPixel = 1, !.HWResolution1 = r]
    /\ p_pageBuffer = NullBuffer
    /\ wd = NoWd

CallFeedPaper ==
    /\ pc = "FeedPaper"
    /\ Len(log) < MaxFeeds
    /\ \E n \in 0..MaxCount :
        LET cmds == FeedPaper(Config.v_motionUnit, pageHeader.HWResolution1, n) IN
        /\ log' = Append(log, FeedEntry(n))
        /\ out' = out \o Concat(cmds)
        /\ calls' = calls + Len(cmds)
    /\ UNCHANGED <<pc, g_TmCanceled, env, Config, pageHeader, p_pageBuffer, rasterIn,
                   pages, i, line_no, start_line_no, last_line_no, result, exitStatus,
                   faults, sinkFailed, observed, resultAtObs, wd>>

NextFeed == CallFeedPaper

SpecFeed == InitFeed /\ [][NextFeed]_vars

(***************************************************************************)
(* Specification of WriteBand alone: one band of a page buffer of 8 rows   *)
(* is transposed, sanitized and written, every write succeeding.  The      *)
(* bands drawn are (a) rows that hold one test byte in one column or are   *)
(* blank, with every band size 1..8, and (b) full bands whose transposed   *)
(* data holds a short pattern of the bytes the sanitizer looks for.        *)
(***************************************************************************)
TestBytes == {1, 177}
PatternBytes == {16, 4, 5, 20, 27, 61, 6}

Bit(v, n) == (v \div Pow2(n)) % 2

BandHeader(bpl) ==
    [cupsBitsPerPixel |-> 1, cupsBytesPerLine |-> bpl, cupsHeight |-> BandHeight,
     cupsWidth |-> bpl * 8, HWResolution1 |-> 1]

ColumnRows(bpl, col, v, S) ==
    [idx \in 1..(BandHeight * bpl) |->
        IF (idx - 1) % bpl = col /\ ((idx - 1) \div bpl) \in S THEN v ELSE 0]

\* The rows whose transposed data is the byte sequence P.
RowsOf(bpl, P) ==
    [idx \in 1..(BandHeight * bpl) |->
        LET k == (idx - 1) \div bpl
            x == (idx - 1) % bpl
        IN SumSeq([b \in 1..8 |-> Bit(P[x * 8 + b], 7 - k) * Pow2(8 - b)])]

PatternAt(bpl, j, pat) ==
    [idx \in 1..(bpl * 8) |->
        IF idx > j /\ idx <= j + Len(pat) THEN pat[idx - j] ELSE 0]

BandInputs ==
    UNION {
        {[bpl |-> bpl, lines |-> lines, mem |-> ColumnRows(bpl, col, v, S)] :
            lines \in 1..BandHeight, col \in 0..(bpl - 1), v \in TestBytes,
            S \in {T \in SUBSET (0..(BandHeight - 1)) :
                      Cardinality(T) <= 2 \/ Cardinality(T) = BandHeight}}
        \cup
        {[bpl |-> bpl, lines |-> BandHeight,
          mem |-> RowsOf(bpl, PatternAt(bpl, j, pat))] :
            j \in 0..(8 * bpl - 2),
            pat \in {q \in SeqsUpTo(PatternBytes, MaxPattern) : Len(q) >= 2}}
        : bpl \in 1..MaxBpl}
    \cup {[bpl |-> 1, lines |-> 2, mem |-> <<128, 64, 0, 0, 0, 0, 0, 0>>]}

BandEntry(at, lines, band) ==
    [op |-> "WriteBand", n |-> lines, at |-> at, raw |-> band.raw, data |-> band.data]

InitBand ==
    /\ Fresh
    /\ pc = "WriteBand"
    /\ env = DefaultEnv
    /\ Config = [ZeroConfig EXCEPT !.v_motionUnit = 1, !.maxBandLines = MaxBandLines]
    /\ \E b \in BandInputs :
        /\ Len(b.mem) = BandHeight * b.bpl
        /\ pageHeader = BandHeader(b.bpl)
        /\ p_pageBuffer = [valid |-> TRUE, size |-> Len(b.mem), mem |-> b.mem]
        /\ wd = [NoWd EXCEPT !.buf = <<b.lines>>]

CallWriteBand ==
    /\ pc = "WriteBand"
    /\ \E band \in WriteBand(Config, pageHeader, p_pageBuffer.mem, 0, wd.buf[1]) :
        /\ log' = Append(log, BandEntry(0, wd.buf[1], band))
        /\ out' = out \o band.cmd \o band.data \o Concat(band.feed)
        /\ calls' = calls + 2 + Len(band.feed)
    /\ pc' = "Returned"
    /\ UNCHANGED <<g_TmCanceled, env, Config, pageHeader, p_pageBuffer, rasterIn, pages,
                   i, line_no, start_line_no, last_line_no, result, exitStatus, faults,
                   sinkFailed, observed, resultAtObs, wd>>

NextBand == CallWriteBand

SpecBand == InitBand /\ [][NextBand]_vars

(***************************************************************************)
(* Specification of WriteBand over page headers: cupsBytesPerLine and a    *)
(* cupsWidth that fits in it (cupsBytesPerLine * 8 >= cupsWidth), among    *)
(* them the widths that are not a multiple of 8.                           *)
(***************************************************************************)
WidthHeaders ==
    {[BandHeader(bpl) EXCEPT !.cupsWidth = w] :
        bpl \in 1..MaxBpl, w \in 1..(8 * MaxBpl)}

InitWidth ==
    /\ Fresh
    /\ pc = "WriteBand"
    /\ env = DefaultEnv
    /\ Config = [ZeroConfig EXCEPT !.v_motionUnit = 1, !.maxBandLines = MaxBandLines]
    /\ \E h \in WidthHeaders, v \in {0, 255}, lines \in 1..BandHeight :
        /\ h.cupsBytesPerLine * 8 >= h.cupsWidth
        /\ pageHeader = h
        /\ p_pageBuffer = [valid |-> TRUE, size |-> BandHeight * h.cupsBytesPerLine,
                           mem |-> [k \in 1..(BandHeight * h.cupsBytesPerLine) |-> v]]
        /\ wd = [NoWd EXCEPT !.buf = <<lines>>]

NextWidth == CallWriteBand

SpecWidth == InitWidth /\ [][NextWidth]_vars

(***************************************************************************)
(* The whole filter: main (lines 135-170) running Init, DoJob and Exit,    *)
(* with SIGTERM arriving at any moment once the handler is installed.      *)
(* One action per function; a function that tests the cancellation flag    *)
(* inside a loop is one action per iteration, so that the signal can       *)
(* arrive between two tests.                                               *)
(***************************************************************************)
FeedPlan(cfg, header, num_line, code) ==
    LET cmds == FeedPaper(cfg.v_motionUnit, header.HWResolution1, num_line)
    IN [k \in 1..Len(cmds) |-> Write(cmds[k], code)]

BandPlan_WithoutPayload(cfg, header, band, code) ==
    <<Write(band.cmd, code)>> \o [k \in 1..Len(band.feed) |-> Write(band.feed[k], code)]

BandPlan(cfg, header, band, code) ==
    <<Write(band.cmd, code), Write(band.data, code)>>
    \o [k \in 1..Len(band.feed) |-> Write(band.feed[k], code)]

OpenDrawer(cfg) ==
    IF cfg.drawerControl = "TmDrawerNotUsed" THEN <<>>
    ELSE <<Write(<<ESC, 112, IF cfg.drawerControl = "TmDrawer1" THEN 0 ELSE 1, 50, 200>>,
                 2106)>>

SoundBuzzer(cfg) ==
    IF cfg.buzzerControl = "TmBuzzerInternal"
    THEN <<Write(<<ESC, 112, 1, 50, 200>>, 2107)>>
    ELSE IF cfg.buzzerControl = "TmBuzzerExternal"
    THEN <<Write(<<ESC, 40, 65, 5, 0, 97, 100, 1, 50, 200>>, 2107)>>
    ELSE <<>>

StartJobPlan(cfg, files) ==
    <<Write(<<ESC, 61, 1, ESC, 64>>, 2101),
      Write(<<ESC, 99, 48, 4>>, 2102),
      Write(<<ESC, 99, 49, 4>>, 2103),
      Write(<<ESC, 99, 51, 0>>, 2104),
      Write(<<GS, 40, 71, 2, 0, 48, 4>>, 2105)>>
    \o OpenDrawer(cfg) \o SoundBuzzer(cfg) \o WriteUserFile(files.StartJob, 2108)

EndJobPlan(files) == WriteUserFile(files.EndJob, 2201)

StartPagePlan_WithoutCommand(files) == WriteUserFile(files.StartPage, 3102)

StartPagePlan(files) ==
    <<Write(<<GS, 40, 71, 2, 0, 84, 1>>, 3101)>> \o WriteUserFile(files.StartPage, 3102)

EndPagePlan(files) ==
    WriteUserFile(files.EndPage, 3201) \o <<Write(<<ESC, 70, 0, FF>>, 3202)>>

\* Init (lines 189-232): the result code and the configuration it leaves.
InitProcess(e, cfg) ==
    IF e.argc # 6 /\ e.argc # 7 THEN [code |-> 1001, cfg |-> cfg]
    ELSE IF e.argc = 7 /\ e.input = "noopen" THEN [code |-> 1002, cfg |-> cfg]
    ELSE IF e.input = "noraster" THEN [code |-> 1003, cfg |-> cfg]
    ELSE IF e.ppdState = "missing" THEN [code |-> 4001, cfg |-> cfg]
    ELSE IF e.ppdState = "conflict" THEN [code |-> 4002, cfg |-> cfg]
    ELSE LET g == GetParameters(e.ppd, cfg) IN
         IF g.code # EPTMD_SUCCESS THEN g
         ELSE [code |-> EPTMD_SUCCESS, cfg |-> [g.cfg EXCEPT !.maxBandLines = MaxBandLines]]

DoInit ==
    /\ pc = "Init"
    /\ g_TmCanceled' = 0
    /\ LET r == InitProcess(env, Config) IN
        /\ Config' = r.cfg
        /\ result' = r.code
        /\ pc' = IF r.code = EPTMD_SUCCESS THEN "StartJob" ELSE "Exit"
    /\ UNCHANGED <<env, pageHeader, p_pageBuffer, rasterIn, pages, i, line_no,
                   start_line_no, last_line_no, exitStatus, out, log, calls, faults,
                   sinkFailed, observed, resultAtObs, wd>>

SignalCallback ==
    /\ pc \in {"StartJob", "ReadHeader", "StartPage", "ReadRaster", "BandLoop",
               "EndPage", "EndJob"}
    /\ g_TmCanceled = 0
    /\ g_TmCanceled' = 1
    /\ UNCHANGED <<pc, env, Config, pageHeader, p_pageBuffer, rasterIn, pages, i, line_no,
                   start_line_no, last_line_no, result, exitStatus, out, log, calls,
                   faults, sinkFailed, observed, resultAtObs, wd>>

StartJob_GoesOnAfterFailure ==
    /\ pc = "StartJob"
    /\ IF g_TmCanceled # 0
       THEN /\ result' = EPTMD_CANCEL
            /\ Observe("StartJob")
            /\ NoEmit
            /\ pc' = "EndJob"
       ELSE /\ \E r \in Runs(StartJobPlan(Config, env.files)) :
                /\ Emit(r)
                /\ result' = r.code
                /\ pc' = "ReadHeader"
            /\ NoObserve
    /\ UNCHANGED <<g_TmCanceled, env, Config, pageHeader, p_pageBuffer, rasterIn, pages,
                   i, line_no, start_line_no, last_line_no, exitStatus, log, wd>>

StartJob ==
    /\ pc = "StartJob"
    /\ IF g_TmCanceled # 0
       THEN /\ result' = EPTMD_CANCEL
            /\ Observe("StartJob")
            /\ NoEmit
            /\ pc' = "EndJob"
       ELSE /\ \E r \in Runs(StartJobPlan(Config, env.files)) :
                /\ Emit(r)
                /\ result' = r.code
                /\ pc' = IF r.code = EPTMD_SUCCESS THEN "ReadHeader" ELSE "EndJob"
            /\ NoObserve
    /\ UNCHANGED <<g_TmCanceled, env, Config, pageHeader, p_pageBuffer, rasterIn, pages,
                   i, line_no, start_line_no, last_line_no, exitStatus, log, wd>>

(***************************************************************************)
(* Pages the raster stream can deliver: header and scanlines.  A page      *)
(* with fewer scanlines than its header announces is a truncated stream.   *)
(***************************************************************************)
Page(height, depth, rows) ==
    [header |-> [cupsBitsPerPixel |-> depth, cupsBytesPerLine |-> 1, cupsHeight |-> height,
                 cupsWidth |-> 8, HWResolution1 |-> 1],
     rows |-> rows]

JobPages ==
    {Page(2, 1, <<<<0>>, <<0>>>>),
     Page(10, 1, [k \in 1..10 |-> IF k = 1 THEN <<0>> ELSE <<128>>]),
     Page(0, 1, <<>>),
     Page(1, 8, <<<<255>>>>),
     Page(2, 1, <<<<128>>>>)}

\* TransferRaster (lines 708-713): memcpy of one scanline to its row of the buffer.
TransferRaster(mem, data, header, row) ==
    LET at == header.cupsBytesPerLine * row
        len == IF Len(mem) < at + Len(data) THEN at + Len(data) ELSE Len(mem)
    IN [k \in 1..len |-> IF at < k /\ k <= at + Len(data) THEN data[k - at]
                         ELSE IF k <= Len(mem) THEN mem[k] ELSE 0]

\* DoJob's test of the pixel depth (line 454).
DepthSupported_Any(header) == TRUE

DepthSupported(header) == header.cupsBitsPerPixel = 1

\* DoJob's loop head (lines 439-469): the next header, the depth test, the allocation.
ReadHeader ==
    /\ pc = "ReadHeader"
    /\ \/ /\ result' = EPTMD_SUCCESS
          /\ pc' = "EndJob"
          /\ UNCHANGED <<pageHeader, p_pageBuffer, rasterIn, pages>>
       \/ /\ pages < MaxPages
          /\ \E p \in JobPages :
              /\ pageHeader' = p.header
              /\ pages' = pages + 1
              /\ rasterIn' = p.rows
              /\ IF ~DepthSupported(p.header)
                 THEN /\ result' = 2001
                      /\ pc' = "EndJob"
                      /\ UNCHANGED p_pageBuffer
                 ELSE IF p_pageBuffer.valid
                 THEN /\ pc' = "StartPage"
                      /\ UNCHANGED <<result, p_pageBuffer>>
                 ELSE LET size == p.header.cupsHeight * p.header.cupsBytesPerLine IN
                      \/ /\ p_pageBuffer' = [valid |-> TRUE, size |-> size, mem |-> Zeros(size)]
                         /\ pc' = "StartPage"
                         /\ UNCHANGED result
                      \/ /\ size = 0       \* malloc(0) may return NULL
                         /\ result' = 2002
                         /\ pc' = "EndJob"
                         /\ UNCHANGED p_pageBuffer
    /\ i' = 0
    /\ UNCHANGED <<g_TmCanceled, env, Config, line_no, start_line_no, last_line_no,
                   exitStatus, out, log, calls, faults, sinkFailed, observed,
                   resultAtObs, wd>>

StartPage_IgnoresResult ==
    /\ pc = "StartPage"
    /\ \E r \in Runs(StartPagePlan(env.files)) :
        /\ Emit(r)
        /\ result' = EPTMD_SUCCESS
        /\ pc' = "ReadRaster"
    /\ i' = 0
    /\ UNCHANGED <<g_TmCanceled, env, Config, pageHeader, p_pageBuffer, rasterIn, pages,
                   line_no, start_line_no, last_line_no, exitStatus, log, observed,
                   resultAtObs, wd>>

StartPage ==
    /\ pc = "StartPage"
    /\ \E r \in Runs(StartPagePlan(env.files)) :
        /\ Emit(r)
        /\ result' = r.code
        /\ pc' = IF r.code = EPTMD_SUCCESS THEN "ReadRaster" ELSE "EndJob"
    /\ i' = 0
    /\ UNCHANGED <<g_TmCanceled, env, Config, pageHeader, p_pageBuffer, rasterIn, pages,
                   line_no, start_line_no, last_line_no, exitStatus, log, observed,
                   resultAtObs, wd>>

ReadRaster_GoesOnAfterShortRead ==
    /\ pc = "ReadRaster"
    /\ i < pageHeader.cupsHeight
    /\ IF g_TmCanceled # 0
       THEN /\ result' = EPTMD_CANCEL
            /\ Observe("ReadRaster")
            /\ pc' = "EndJob"
            /\ UNCHANGED <<p_pageBuffer, rasterIn, i>>
       ELSE /\ NoObserve
            /\ IF rasterIn = <<>>
               THEN /\ result' = 3302
                    /\ pc' = "ReadRaster"
                    /\ i' = i + 1
                    /\ UNCHANGED <<p_pageBuffer, rasterIn>>
               ELSE /\ rasterIn' = Tail(rasterIn)
                    /\ UNCHANGED result
                    /\ \/ /\ p_pageBuffer' =
                               [p_pageBuffer EXCEPT
                                   !.mem = TransferRaster(@, Head(rasterIn), pageHeader, i)]
                          /\ i' = i + 1
                          /\ pc' = "ReadRaster"
                       \/ /\ p_pageBuffer.size < pageHeader.cupsBytesPerLine * (i + 1)
                          /\ pc' = "Crashed"
                          /\ UNCHANGED <<p_pageBuffer, i>>
    /\ UNCHANGED <<g_TmCanceled, env, Config, pageHeader, pages, line_no, start_line_no,
                   last_line_no, exitStatus, out, log, calls, faults, sinkFailed, wd>>

\* One iteration of ReadRaster's loop (lines 684-698).  A scanline copied past
\* the end of a buffer that was allocated for an earlier, smaller page is a heap
\* overflow: the process may die, or the bytes may land behind the buffer.
ReadRaster ==
    /\ pc = "ReadRaster"
    /\ i < pageHeader.cupsHeight
    /\ IF g_TmCanceled # 0
       THEN /\ result' = EPTMD_CANCEL
            /\ Observe("ReadRaster")
            /\ pc' = "EndJob"
            /\ UNCHANGED <<p_pageBuffer, rasterIn, i>>
       ELSE /\ NoObserve
            /\ IF rasterIn = <<>>
               THEN /\ result' = 3302
                    /\ pc' = "EndJob"
                    /\ UNCHANGED <<p_pageBuffer, rasterIn, i>>
               ELSE /\ rasterIn' = Tail(rasterIn)
                    /\ UNCHANGED result
                    /\ \/ /\ p_pageBuffer' =
                               [p_pageBuffer EXCEPT
                                   !.mem = TransferRaster(@, Head(rasterIn), pageHeader, i)]
                          /\ i' = i + 1
                          /\ pc' = "ReadRaster"
                       \/ /\ p_pageBuffer.size < pageHeader.cupsBytesPerLine * (i + 1)
                          /\ pc' = "Crashed"
                          /\ UNCHANGED <<p_pageBuffer, i>>
    /\ UNCHANGED <<g_TmCanceled, env, Config, pageHeader, pages, line_no, start_line_no,
                   last_line_no, exitStatus, out, log, calls, faults, sinkFailed, wd>>

\* The three tests of the paper-reduction mode in WriteRaster (lines 729, 740, 761).
BlankPageFeeds_Never(cfg) == FALSE

BlankPageFeeds_Always(cfg) == TRUE

BlankPageFeeds(cfg) == cfg.paperReduction = "TmPaperReductionOff"

FeedsTop_UnlessBottom(cfg) ==
    ~(cfg.paperReduction = "TmPaperReductionBottom"
      \/ cfg.paperReduction = "TmPaperReductionBoth")

FeedsTop(cfg) ==
    ~(cfg.paperReduction = "TmPaperReductionTop" \/ cfg.paperReduction = "TmPaperReductionBoth")

FeedsBottom(cfg) ==
    ~(cfg.paperReduction = "TmPaperReductionBottom"
      \/ cfg.paperReduction = "TmPaperReductionBoth")

\* WriteRaster up to its band loop (lines 726-743): the margins, the blank page,
\* the top feed.
WriteRaster ==
    /\ pc = "ReadRaster"
    /\ i >= pageHeader.cupsHeight
    /\ LET top == FindBlackRasterLineTop(pageHeader, p_pageBuffer.mem) IN
       IF pageHeader.cupsHeight = top
       THEN /\ start_line_no' = top
            /\ last_line_no' = 0
            /\ line_no' = 0
            /\ IF BlankPageFeeds(Config)
               THEN /\ log' = Append(log, FeedEntry(pageHeader.cupsHeight))
                    /\ \E r \in Runs(FeedPlan(Config, pageHeader, pageHeader.cupsHeight, 3401)) :
                        /\ Emit(r)
                        /\ result' = r.code
                        /\ pc' = IF r.code = EPTMD_SUCCESS THEN "EndPage" ELSE "EndJob"
               ELSE /\ NoEmit
                    /\ result' = EPTMD_SUCCESS
                    /\ pc' = "EndPage"
                    /\ UNCHANGED log
       ELSE /\ start_line_no' = top
            /\ last_line_no' = FindBlackRasterLineEnd(pageHeader, p_pageBuffer.mem) + 1
            /\ line_no' = top
            /\ IF FeedsTop(Config)
               THEN /\ log' = Append(log, FeedEntry(top))
                    /\ \E r \in Runs(FeedPlan(Config, pageHeader, top, 3402)) :
                        /\ Emit(r)
                        /\ result' = r.code
                        /\ pc' = IF r.code = EPTMD_SUCCESS THEN "BandLoop" ELSE "EndJob"
               ELSE /\ NoEmit
                    /\ result' = EPTMD_SUCCESS
                    /\ pc' = "BandLoop"
                    /\ UNCHANGED log
    /\ UNCHANGED <<g_TmCanceled, env, Config, pageHeader, p_pageBuffer, rasterIn, pages, i,
                   exitStatus, observed, resultAtObs, wd>>

WriteRasterBand_WithoutFlagCheck ==
    /\ pc = "BandLoop"
    /\ line_no + Config.maxBandLines < last_line_no
    /\ \E band \in WriteBand(Config, pageHeader, p_pageBuffer.mem, line_no,
                             Config.maxBandLines) :
       \E r \in Runs(BandPlan(Config, pageHeader, band, 3403)) :
        /\ Emit(r)
        /\ log' = log \o <<BandEntry(line_no, Config.maxBandLines, band)>>
                      \o (IF r.done >= 2 THEN <<FeedEntry(BandHeight)>> ELSE <<>>)
        /\ NoObserve
        /\ IF r.code # EPTMD_SUCCESS
           THEN /\ result' = r.code
                /\ pc' = "EndJob"
                /\ UNCHANGED line_no
           ELSE /\ line_no' = line_no + Config.maxBandLines
                /\ pc' = "BandLoop"
                /\ UNCHANGED result
    /\ UNCHANGED <<g_TmCanceled, env, Config, pageHeader, p_pageBuffer, rasterIn, pages, i,
                   start_line_no, last_line_no, exitStatus, wd>>

\* One iteration of WriteRaster's band loop (lines 745-753).
WriteRasterBand ==
    /\ pc = "BandLoop"
    /\ line_no + Config.maxBandLines < last_line_no
    /\ \E band \in WriteBand(Config, pageHeader, p_pageBuffer.mem, line_no,
                             Config.maxBandLines) :
       \E r \in Runs(BandPlan(Config, pageHeader, band, 3403)) :
        /\ Emit(r)
        /\ log' = log \o <<BandEntry(line_no, Config.maxBandLines, band)>>
                      \o (IF r.done >= 2 THEN <<FeedEntry(BandHeight)>> ELSE <<>>)
        /\ IF r.code # EPTMD_SUCCESS
           THEN /\ result' = r.code
                /\ pc' = "EndJob"
                /\ NoObserve
                /\ UNCHANGED line_no
           ELSE IF g_TmCanceled # 0
           THEN /\ result' = EPTMD_CANCEL
                /\ pc' = "EndJob"
                /\ Observe("WriteRaster")
                /\ UNCHANGED line_no
           ELSE /\ line_no' = line_no + Config.maxBandLines
                /\ pc' = "BandLoop"
                /\ NoObserve
                /\ UNCHANGED result
    /\ UNCHANGED <<g_TmCanceled, env, Config, pageHeader, p_pageBuffer, rasterIn, pages, i,
                   start_line_no, last_line_no, exitStatus, wd>>

WriteRasterTail_OneLine ==
    /\ pc = "BandLoop"
    /\ ~(line_no + Config.maxBandLines < last_line_no)
    /\ \E band \in IF line_no < last_line_no
                   THEN WriteBand(Config, pageHeader, p_pageBuffer.mem, line_no,
                                  1)
                   ELSE {[cmd |-> <<>>, raw |-> <<>>, data |-> <<>>, feed |-> <<>>]} :
       LET hasBand == line_no < last_line_no
           bandPlan == IF hasBand THEN BandPlan(Config, pageHeader, band, 3404) ELSE <<>>
           bottom == pageHeader.cupsHeight - last_line_no
           feedPlan == IF FeedsBottom(Config)
                       THEN FeedPlan(Config, pageHeader, bottom, 3405) ELSE <<>>
       IN \E r \in Runs(bandPlan \o feedPlan) :
           /\ Emit(r)
           /\ log' = log
                \o (IF hasBand THEN <<BandEntry(line_no, 1, band)>>
                    ELSE <<>>)
                \o (IF hasBand /\ r.done >= 2 THEN <<FeedEntry(BandHeight)>> ELSE <<>>)
                \o (IF FeedsBottom(Config) /\ r.done >= Len(bandPlan)
                    THEN <<FeedEntry(bottom)>> ELSE <<>>)
           /\ result' = r.code
           /\ pc' = IF r.code = EPTMD_SUCCESS THEN "EndPage" ELSE "EndJob"
    /\ UNCHANGED <<g_TmCanceled, env, Config, pageHeader, p_pageBuffer, rasterIn, pages, i,
                   line_no, start_line_no, last_line_no, exitStatus, observed,
                   resultAtObs, wd>>

\* The rest of WriteRaster (lines 755-766): the last band and the bottom feed.
WriteRasterTail ==
    /\ pc = "BandLoop"
    /\ ~(line_no + Config.maxBandLines < last_line_no)
    /\ \E band \in IF line_no < last_line_no
                   THEN WriteBand(Config, pageHeader, p_pageBuffer.mem, line_no,
                                  last_line_no - line_no)
                   ELSE {[cmd |-> <<>>, raw |-> <<>>, data |-> <<>>, feed |-> <<>>]} :
       LET hasBand == line_no < last_line_no
           bandPlan == IF hasBand THEN BandPlan(Config, pageHeader, band, 3404) ELSE <<>>
           bottom == pageHeader.cupsHeight - last_line_no
           feedPlan == IF FeedsBottom(Config)
                       THEN FeedPlan(Config, pageHeader, bottom, 3405) ELSE <<>>
       IN \E r \in Runs(bandPlan \o feedPlan) :
           /\ Emit(r)
           /\ log' = log
                \o (IF hasBand THEN <<BandEntry(line_no, last_line_no - line_no, band)>>
                    ELSE <<>>)
                \o (IF hasBand /\ r.done >= 2 THEN <<FeedEntry(BandHeight)>> ELSE <<>>)
                \o (IF FeedsBottom(Config) /\ r.done >= Len(bandPlan)
                    THEN <<FeedEntry(bottom)>> ELSE <<>>)
           /\ result' = r.code
           /\ pc' = IF r.code = EPTMD_SUCCESS THEN "EndPage" ELSE "EndJob"
    /\ UNCHANGED <<g_TmCanceled, env, Config, pageHeader, p_pageBuffer, rasterIn, pages, i,
                   line_no, start_line_no, last_line_no, exitStatus, observed,
                   resultAtObs, wd>>

EndPage ==
    /\ pc = "EndPage"
    /\ IF g_TmCanceled # 0
       THEN /\ result' = EPTMD_CANCEL
            /\ Observe("EndPage")
            /\ NoEmit
            /\ pc' = "EndJob"
       ELSE /\ \E r \in Runs(EndPagePlan(env.files)) :
                /\ Emit(r)
                /\ result' = r.code
                /\ pc' = IF r.code = EPTMD_SUCCESS THEN "ReadHeader" ELSE "EndJob"
            /\ NoObserve
    /\ UNCHANGED <<g_TmCanceled, env, Config, pageHeader, p_pageBuffer, rasterIn, pages,
                   i, line_no, start_line_no, last_line_no, exitStatus, log, wd>>

EndJob_ReportsSuccess ==
    /\ pc = "EndJob"
    /\ p_pageBuffer' = NullBuffer
    /\ IF g_TmCanceled # 0
       THEN /\ Observe("EndJob")
            /\ NoEmit
            /\ UNCHANGED result
       ELSE /\ NoObserve
            /\ \E r \in Runs(EndJobPlan(env.files)) :
                /\ Emit(r)
                /\ result' = IF result # EPTMD_SUCCESS THEN result ELSE r.code
    /\ pc' = "Exit"
    /\ UNCHANGED <<g_TmCanceled, env, Config, pageHeader, rasterIn, pages, i, line_no,
                   start_line_no, last_line_no, exitStatus, log, wd>>

EndJob_ResultWins ==
    /\ pc = "EndJob"
    /\ p_pageBuffer' = NullBuffer
    /\ IF g_TmCanceled # 0
       THEN /\ Observe("EndJob")
            /\ NoEmit
            /\ result' = EPTMD_CANCEL
       ELSE /\ NoObserve
            /\ \E r \in Runs(EndJobPlan(env.files)) :
                /\ Emit(r)
                /\ result' = r.code
    /\ pc' = "Exit"
    /\ UNCHANGED <<g_TmCanceled, env, Config, pageHeader, rasterIn, pages, i, line_no,
                   start_line_no, last_line_no, exitStatus, log, wd>>

EndJob_KeepsBuffer ==
    /\ pc = "EndJob"
    /\ IF g_TmCanceled # 0
       THEN /\ Observe("EndJob")
            /\ NoEmit
            /\ result' = IF result # EPTMD_SUCCESS THEN result ELSE EPTMD_CANCEL
       ELSE /\ NoObserve
            /\ \E r \in Runs(EndJobPlan(env.files)) :
                /\ Emit(r)
                /\ result' = IF result # EPTMD_SUCCESS THEN result ELSE r.code
    /\ pc' = "Exit"
    /\ UNCHANGED <<g_TmCanceled, env, Config, pageHeader, p_pageBuffer, rasterIn, pages, i,
                   line_no, start_line_no, last_line_no, exitStatus, log, wd>>

EndJob_WithoutFlagCheck ==
    /\ pc = "EndJob"
    /\ p_pageBuffer' = NullBuffer
    /\ NoObserve
    /\ \E r \in Runs(EndJobPlan(env.files)) :
        /\ Emit(r)
        /\ result' = IF result # EPTMD_SUCCESS THEN result ELSE r.code
    /\ pc' = "Exit"
    /\ UNCHANGED <<g_TmCanceled, env, Config, pageHeader, rasterIn, pages, i, line_no,
                   start_line_no, last_line_no, exitStatus, log, wd>>

\* The end of DoJob (lines 472-485): the buffer is freed, EndJob runs after
\* success and after failure, and its result counts only after success.
EndJob ==
    /\ pc = "EndJob"
    /\ p_pageBuffer' = NullBuffer
    /\ IF g_TmCanceled # 0
       THEN /\ Observe("EndJob")
            /\ NoEmit
            /\ result' = IF result # EPTMD_SUCCESS THEN result ELSE EPTMD_CANCEL
       ELSE /\ NoObserve
            /\ \E r \in Runs(EndJobPlan(env.files)) :
                /\ Emit(r)
                /\ result' = IF result # EPTMD_SUCCESS THEN result ELSE r.code
    /\ pc' = "Exit"
    /\ UNCHANGED <<g_TmCanceled, env, Config, pageHeader, rasterIn, pages, i, line_no,
                   start_line_no, last_line_no, exitStatus, log, wd>>

Exit_CancelAsFailure ==
    /\ pc = "Exit"
    /\ exitStatus' = IF result = EPTMD_SUCCESS THEN 0 ELSE -1
    /\ pc' = "Done"
    /\ UNCHANGED <<g_TmCanceled, env, Config, pageHeader, p_pageBuffer, rasterIn, pages, i,
                   line_no, start_line_no, last_line_no, result, out, log, calls, faults,
                   sinkFailed, observed, resultAtObs, wd>>

\* Exit and the status main returns (lines 151-169).
Exit ==
    /\ pc = "Exit"
    /\ exitStatus' = IF result = EPTMD_SUCCESS THEN 0
                     ELSE IF result = EPTMD_CANCEL THEN -2 ELSE -1
    /\ pc' = "Done"
    /\ UNCHANGED <<g_TmCanceled, env, Config, pageHeader, p_pageBuffer, rasterIn, pages, i,
                   line_no, start_line_no, last_line_no, result, out, log, calls, faults,
                   sinkFailed, observed, resultAtObs, wd>>

(***************************************************************************)
(* The environments a job is started in: the default one and those that    *)
(* differ from it in one respect (the arguments, the input, the PPD, the   *)
(* user files).                                                            *)
(***************************************************************************)
UserFiles ==
    [StartJob |-> [state |-> "ok", data |-> <<33, 34>>],
     EndJob |-> [state |-> "ok", data |-> <<35, 36>>],
     StartPage |-> [state |-> "ok", data |-> <<37, 38>>],
     EndPage |-> [state |-> "ok", data |-> <<39, 40>>]]

PPDs ==
    {DefaultPPD}
    \cup {[DefaultPPD EXCEPT !.reduction = m] : m \in {"Bottom", "Both", "NULL", "Other"}}
    \cup {[DefaultPPD EXCEPT !.buzzer = b] :
            b \in {"ExternalBuzzer", "OpenDrawer1", "NULL", "Other"}}
    \cup {[DefaultPPD EXCEPT !.hasHori = FALSE], [DefaultPPD EXCEPT !.hasVert = FALSE]}
    \cup {[DefaultPPD EXCEPT !.hori = Long(v)] : v \in {0, 256}}
    \cup {[DefaultPPD EXCEPT !.vert = Long(v)] : v \in {0, 256, -1}}

FileSets ==
    {UserFiles,
     [NoFiles EXCEPT !.StartJob = [state |-> "EIO", data |-> <<>>]],
     [NoFiles EXCEPT !.EndJob = [state |-> "EACCES", data |-> <<>>]],
     [NoFiles EXCEPT !.StartPage = [state |-> "EACCES", data |-> <<>>]],
     [NoFiles EXCEPT !.EndPage = [state |-> "EIO", data |-> <<>>]]}

Envs ==
    {[DefaultEnv EXCEPT !.ppd = p] : p \in PPDs}
    \cup {[DefaultEnv EXCEPT !.files = f] : f \in FileSets}
    \cup {[DefaultEnv EXCEPT !.argc = 5],
          [DefaultEnv EXCEPT !.argc = 7, !.input = "noopen"],
          [DefaultEnv EXCEPT !.input = "noraster"],
          [DefaultEnv EXCEPT !.ppdState = "missing"],
          [DefaultEnv EXCEPT !.ppdState = "conflict"]}

Init ==
    /\ Fresh
    /\ pc = "Init"
    /\ env \in Envs
    /\ Config = ZeroConfig
    /\ pageHeader = ZeroHeader
    /\ p_pageBuffer = NullBuffer
    /\ wd = NoWd

Next ==
    \/ DoInit
    \/ SignalCallback
    \/ StartJob
    \/ ReadHeader
    \/ StartPage
    \/ ReadRaster
    \/ WriteRaster
    \/ WriteRasterBand
    \/ WriteRasterTail
    \/ EndPage
    \/ EndJob
    \/ Exit

Spec == Init /\ [][Next]_vars

(***************************************************************************)
(* Specification of the start of main: Init for every combination of the   *)
(* PPD's four settings, then StartJob with a plain sink or Exit.           *)
(***************************************************************************)
MotionValues ==
    {Long(0), Long(1), Long(255), Long(256), Long(-1), [high |-> 1, low |-> 1]}

ReductionChoices == {"Off", "Top", "Bottom", "Both", "NULL", "Other"}

BuzzerChoices ==
    {"NotUsed", "InternalBuzzer", "ExternalBuzzer", "OpenDrawer1", "OpenDrawer2",
     "NULL", "Other"}

StartPPDs ==
    [hasHori : BOOLEAN, hori : MotionValues, hasVert : BOOLEAN, vert : MotionValues,
     reduction : ReductionChoices, buzzer : BuzzerChoices]

InitStart ==
    /\ g_TmCanceled = 0
    /\ rasterIn = <<>>
    /\ pages = 0
    /\ i = 0
    /\ line_no = 0
    /\ start_line_no = 0
    /\ last_line_no = 0
    /\ result = EPTMD_SUCCESS
    /\ exitStatus = 0
    /\ out = <<>>
    /\ log = <<>>
    /\ calls = 0
    /\ faults = MaxFaults
    /\ sinkFailed = FALSE
    /\ observed = "none"
    /\ resultAtObs = 0
    /\ pc = "Init"
    /\ \E p \in StartPPDs : env = [DefaultEnv EXCEPT !.ppd = p]
    /\ Config = ZeroConfig
    /\ pageHeader = ZeroHeader
    /\ p_pageBuffer = NullBuffer
    /\ wd = NoWd

NextStart ==
    \/ DoInit
    \/ StartJob
    \/ Exit

SpecStart == InitStart /\ [][NextStart]_vars

(***************************************************************************)
(* Specification of WriteRaster alone: it is called once, after ReadRaster *)
(* has filled the buffer, for every bitmap of up to MaxHeight scanlines,   *)
(* every paper-reduction mode and a plain sink.                            *)
(***************************************************************************)
Modes ==
    {"TmPaperReductionOff", "TmPaperReductionTop", "TmPaperReductionBottom",
     "TmPaperReductionBoth"}

\* v_motionUnit and HWResolution[1]
FeedScales == {<<1, 1>>, <<3, 2>>}

RasterHeader(bpl, height, resolution) ==
    [cupsBitsPerPixel |-> 1, cupsBytesPerLine |-> bpl, cupsHeight |-> height,
     cupsWidth |-> 8 * bpl, HWResolution1 |-> resolution]

RECURSIVE Bitmaps(_, _)
Bitmaps(rows, height) ==
    IF height = 0 THEN {<<>>}
    ELSE {r \o m : r \in rows, m \in Bitmaps(rows, height - 1)}

RasterInputs ==
    UNION {{[bpl |-> 1, height |-> h, mem |-> m] : m \in Bitmaps({<<0>>, <<128>>}, h)} :
             h \in 0..MaxHeight}
    \cup UNION {{[bpl |-> 2, height |-> h, mem |-> m] :
                    m \in Bitmaps({<<0, 0>>, <<0, 1>>, <<64, 0>>}, h)} : h \in 1..MaxWide}

InitRaster ==
    /\ g_TmCanceled = 0
    /\ rasterIn = <<>>
    /\ pages = 1
    /\ line_no = 0
    /\ start_line_no = 0
    /\ last_line_no = 0
    /\ result = EPTMD_SUCCESS
    /\ exitStatus = 0
    /\ out = <<>>
    /\ log = <<>>
    /\ calls = 0
    /\ faults = MaxFaults
    /\ sinkFailed = FALSE
    /\ observed = "none"
    /\ resultAtObs = 0
    /\ pc = "ReadRaster"
    /\ env = DefaultEnv
    /\ wd = NoWd
    /\ \E b \in RasterInputs, mode \in Modes, sc \in FeedScales :
        /\ Config = [ZeroConfig EXCEPT !.h_motionUnit = 1, !.v_motionUnit = sc[1],
                                       !.paperReduction = mode,
                                       !.maxBandLines = MaxBandLines]
        /\ pageHeader = RasterHeader(b.bpl, b.height, sc[2])
        /\ p_pageBuffer = [valid |-> TRUE, size |-> Len(b.mem), mem |-> b.mem]
        /\ i = b.height

NextRaster ==
    \/ WriteRaster
    \/ WriteRasterBand
    \/ WriteRasterTail
    \/ SignalCallback

SpecRaster == InitRaster /\ [][NextRaster]_vars

(***************************************************************************)
(* Specification of DoPage alone (lines 605-624): DoJob has read the       *)
(* header of the job's first page and allocated the buffer for it;         *)
(* StartPage, ReadRaster, WriteRaster and EndPage run, SIGTERM may arrive  *)
(* at any moment.                                                          *)
(***************************************************************************)
PagePPDs == {DefaultPPD, [DefaultPPD EXCEPT !.reduction = "Both"]}

PageEnvs == {[DefaultEnv EXCEPT !.ppd = p, !.files = f] : p \in PagePPDs, f \in {NoFiles, UserFiles}}

InitPage ==
    /\ g_TmCanceled = 0
    /\ pages = 1
    /\ i = 0
    /\ line_no = 0
    /\ start_line_no = 0
    /\ last_line_no = 0
    /\ result = EPTMD_SUCCESS
    /\ exitStatus = 0
    /\ out = <<>>
    /\ log = <<>>
    /\ calls = 0
    /\ faults = 0
    /\ sinkFailed = FALSE
    /\ observed = "none"
    /\ resultAtObs = 0
    /\ wd = NoWd
    /\ pc = "StartPage"
    /\ env \in PageEnvs
    /\ Config = InitProcess(env, ZeroConfig).cfg
    /\ \E p \in {q \in JobPages : DepthSupported(q.header)} :
        /\ pageHeader = p.header
        /\ rasterIn = p.rows
        /\ p_pageBuffer = [valid |-> TRUE,
                           size |-> p.header.cupsHeight * p.header.cupsBytesPerLine,
                           mem |-> Zeros(p.header.cupsHeight * p.header.cupsBytesPerLine)]

NextPage ==
    \/ SignalCallback
    \/ StartPage
    \/ ReadRaster
    \/ WriteRaster
    \/ WriteRasterBand
    \/ WriteRasterTail
    \/ EndPage

SpecPage == InitPage /\ [][NextPage]_vars

(***************************************************************************)
(* Specification of WriteUserFile alone (lines 902-946): the file is       *)
(* absent, cannot be opened or read, or holds a few bytes or one byte more *)
(* than a 1024-byte chunk; the call is made, one write(2) call at most     *)
(* meeting a script.                                                       *)
(***************************************************************************)
FileBytes == {27, 61, 65}

LongFile == [k \in 1..(UserFileChunk + 1) |-> k % 251]

UserFileCases ==
    {Absent, [state |-> "EIO", data |-> <<>>], [state |-> "EACCES", data |-> <<>>]}
    \cup {[state |-> "ok", data |-> d] : d \in SeqsUpTo(FileBytes, MaxSize) \cup {LongFile}}

InitUser ==
    /\ Fresh
    /\ pc = "WriteUserFile"
    /\ Config = ZeroConfig
    /\ pageHeader = ZeroHeader
    /\ p_pageBuffer = NullBuffer
    /\ wd = NoWd
    /\ \E f \in UserFileCases : env = [DefaultEnv EXCEPT !.files.StartJob = f]

CallWriteUserFile ==
    /\ pc = "WriteUserFile"
    /\ \E r \in Runs(WriteUserFile(env.files.StartJob, EPTMD_FAILED)) :
        /\ Emit(r)
        /\ result' = r.code
    /\ pc' = "Returned"
    /\ UNCHANGED <<g_TmCanceled, env, Config, pageHeader, p_pageBuffer, rasterIn, pages,
                   i, line_no, start_line_no, last_line_no, exitStatus, log, observed,
                   resultAtObs, wd>>

NextUser == CallWriteUserFile

SpecUser == InitUser /\ [][NextUser]_vars

(***************************************************************************)
(* Readings of the histories used by the properties below.                 *)
(***************************************************************************)
RECURSIVE FeedDistances(_)
FeedDistances(bytes) ==
    IF Len(bytes) < 3 THEN 0 ELSE bytes[3] + FeedDistances(SubSeq(bytes, 4, Len(bytes)))

FeedCalls == SelectSeq(log, LAMBDA e : e.op = "FeedPaper")

BandCalls == SelectSeq(log, LAMBDA e : e.op = "WriteBand")

ScanlinesFed == SumSeq([k \in 1..Len(FeedCalls) |-> FeedCalls[k].n])

EndsWith(s, t) == Len(t) <= Len(s) /\ SubSeq(s, Len(s) - Len(t) + 1, Len(s)) = t

(***************************************************************************)
(* C1: cancellation.  From the check point at which the flag is first seen *)
(* set, no WriteData call is made and no byte reaches the sink for the     *)
(* rest of the job; a check made at job start, at a scanline read, at page *)
(* end or at job end writes nothing itself, and the check after a full     *)
(* band comes right after that band and its feed were written (with a      *)
(* sink that took every write whole, they are the last bytes).  The job    *)
(* ends with the cancellation status, except that when the flag is first   *)
(* seen at job end after an earlier stage has failed, the job keeps the    *)
(* failure status.                                                         *)
(***************************************************************************)
C1_CancelStopsOutput ==
    /\ [][/\ observed # "none" => (out' = out /\ calls' = calls /\ log' = log)
          /\ (observed = "none" /\ observed' # "none") =>
                IF observed' = "WriteRaster"
                THEN /\ Len(log') >= 2
                     /\ log'[Len(log') - 1].op = "WriteBand"
                     /\ log'[Len(log')] = FeedEntry(BandHeight)
                     /\ faults' = faults =>
                            out' = out \o BandCommand(pageHeader)
                                       \o log'[Len(log') - 1].data
                                       \o Concat(FeedPaper(Config.v_motionUnit,
                                                           pageHeader.HWResolution1,
                                                           BandHeight))
                ELSE out' = out /\ calls' = calls]_vars
    /\ []((pc = "Done" /\ observed # "none") =>
            IF observed = "EndJob" /\ resultAtObs # EPTMD_SUCCESS
            THEN exitStatus = -1
            ELSE exitStatus = -2)

C1_Witness ==
    /\ pc = "Done"
    /\ observed = "WriteRaster"
    /\ exitStatus = -2
    /\ Len(BandCalls) = 1
    /\ last_line_no - start_line_no > BandHeight
    /\ EndsWith(out, <<ESC, 74, BandHeight>>)

\* C1 as stated: after the flag is seen set nothing more is written, and the job
\* always ends with the cancellation status.
C1_AsStated ==
    /\ [][observed # "none" => out' = out]_vars
    /\ []((pc = "Done" /\ observed # "none") => exitStatus = -2)

(***************************************************************************)
(* C2: the feed calculator carries the fractional remainder across the     *)
(* feed computations of one page: after any sequence of FeedPaper calls    *)
(* with scanline counts n1..nk, the emitted distances sum to               *)
(* floor((n1 + ... + nk) * v_motionUnit / HWResolution[1]).                *)
(***************************************************************************)
C2_FeedCarriesRemainder ==
    pc = "FeedPaper" =>
        FeedDistances(out) =
            (ScanlinesFed * Config.v_motionUnit) \div pageHeader.HWResolution1

(***************************************************************************)
(* C3: WriteData retries an interrupted write with only the unwritten      *)
(* remainder: the write attempt after an EINTR starts at the first byte    *)
(* the sink has not accepted, an EINTR with bytes left is followed by      *)
(* another attempt, and on success the sink holds exactly the buffer.      *)
(***************************************************************************)
C3_RetriesOnlyRemainder ==
    pc = "Returned" =>
        LET t == wd.res.tries IN
        /\ \A k \in 1..Len(t) : t[k].after = "EINTR" => t[k].at = t[k].sunk
        /\ \A k \in 1..Len(t) :
               (t[k].ev = "EINTR" /\ t[k].sunk < Len(wd.buf)) => k < Len(t)
        /\ wd.res.res = EPTMD_SUCCESS => out = wd.buf

(***************************************************************************)
(* C4: after a WriteData call has failed because the sink returned an      *)
(* error other than EINTR, or accepted zero bytes, no further page is      *)
(* read, no band or feed call is made, and the only WriteData calls still  *)
(* made are those of EndJob sending the job-end user file; the job ends    *)
(* with the failure status.                                                *)
(***************************************************************************)
C4_AbortAfterSinkFailure ==
    /\ [][sinkFailed =>
            /\ calls' # calls => pc = "EndJob"
            /\ pages' = pages
            /\ rasterIn' = rasterIn
            /\ log' = log]_vars
    /\ []((sinkFailed /\ pc = "Done") => exitStatus = -1)

C4_Witness ==
    /\ pc = "Done"
    /\ sinkFailed
    /\ exitStatus = -1
    /\ Len(BandCalls) >= 1
    /\ result = 3404

\* C4 as stated: after such a failure no WriteData call at all is made.
C4_AsStated ==
    /\ [][sinkFailed => calls' = calls]_vars
    /\ []((sinkFailed /\ pc = "Done") => exitStatus = -1)

(***************************************************************************)
(* C5: band transposition.  For a band of `lines` scanlines (1..8) the     *)
(* transposed data has cupsBytesPerLine * 8 bytes, and for every column    *)
(* byte x and bit position b (0 = most significant), bit (7 - k) of byte   *)
(* x * 8 + b equals bit (7 - b) of scanline k's byte x for k < lines and   *)
(* is 0 for k >= lines.                                                    *)
(***************************************************************************)
C5_Transposition ==
    pc = "Returned" =>
        LET bpl == pageHeader.cupsBytesPerLine
            raw == log[1].raw
            lines == log[1].n
        IN /\ Len(raw) = bpl * 8
           /\ \A x \in 0..(bpl - 1), b \in 0..7, k \in 0..7 :
                  Bit(raw[x * 8 + b + 1], 7 - k) =
                      IF k < lines THEN Bit(RowByte(p_pageBuffer.mem, bpl, k, x), 7 - b)
                      ELSE 0

C5_Witness ==
    /\ pc = "Returned"
    /\ log[1].n = 2
    /\ p_pageBuffer.mem = <<128, 64, 0, 0, 0, 0, 0, 0>>
    /\ log[1].raw = <<128, 64, 0, 0, 0, 0, 0, 0>>

(***************************************************************************)
(* C6: the sanitized band data equals the reference left-to-right scan of  *)
(* the transposed data starting at index 0: a byte 0x10 followed by 0x04,  *)
(* 0x05 or 0x14 becomes 0x30, a byte 0x1B followed by 0x3D becomes 0x3B,   *)
(* every other byte keeps its value and the length is unchanged.           *)
(***************************************************************************)
SanitizedReference(raw) ==
    [k \in 1..Len(raw) |->
        IF k < Len(raw) /\ raw[k] = 16 /\ raw[k + 1] \in {4, 5, 20} THEN 48
        ELSE IF k < Len(raw) /\ raw[k] = 27 /\ raw[k + 1] = 61 THEN 59
        ELSE raw[k]]

C6_SanitizedFromStart ==
    pc = "Returned" => log[1].data = SanitizedReference(log[1].raw)

(***************************************************************************)
(* Readings of a page for the properties of WriteRaster: the scanlines of  *)
(* the page buffer that hold a non-zero byte, and the bytes a logged call  *)
(* hands to a plain sink.                                                  *)
(***************************************************************************)
InkedLines ==
    {y \in 0..(pageHeader.cupsHeight - 1) :
        \E x \in 1..pageHeader.cupsBytesPerLine :
            p_pageBuffer.mem[pageHeader.cupsBytesPerLine * y + x] # 0}

Least(S) == CHOOSE y \in S : \A z \in S : y <= z

Greatest(S) == CHOOSE y \in S : \A z \in S : z <= y

FeedBytes(n) == Concat(FeedPaper(Config.v_motionUnit, pageHeader.HWResolution1, n))

BytesOf(e) == IF e.op = "FeedPaper" THEN FeedBytes(e.n) ELSE BandCommand(pageHeader) \o e.data

LogBytes == Concat([k \in 1..Len(log) |-> BytesOf(log[k])])

WriteRasterReturned == pc \in {"EndPage", "EndJob"} /\ result = EPTMD_SUCCESS

(***************************************************************************)
(* C7: margin detection.  Once WriteRaster has looked for the margins, the *)
(* top it found is the least index of a scanline holding a non-zero byte,  *)
(* or the height when there is none; on a page with such a scanline the    *)
(* bottom it found is the greatest such index, top <= bottom < height, and *)
(* the range [top, bottom+1) leaves out only all-zero scanlines.           *)
(***************************************************************************)
C7_MarginDetection ==
    pc # "ReadRaster" =>
        /\ start_line_no = IF InkedLines = {} THEN pageHeader.cupsHeight
                           ELSE Least(InkedLines)
        /\ InkedLines # {} =>
            /\ last_line_no - 1 = Greatest(InkedLines)
            /\ start_line_no <= last_line_no - 1
            /\ last_line_no - 1 < pageHeader.cupsHeight
            /\ \A y \in InkedLines : start_line_no <= y /\ y < last_line_no

C7_Witness ==
    /\ pc = "BandLoop"
    /\ pageHeader.cupsHeight = 8
    /\ InkedLines = {5}
    /\ start_line_no = 5
    /\ last_line_no = 6

(***************************************************************************)
(* C8: for a page whose bitmap is all zero bytes and mode Off, WriteRaster *)
(* writes no band; it makes one FeedPaper call, for the full height, and   *)
(* the bytes it emits are that feed's commands.                            *)
(***************************************************************************)
C8_BlankPageOff ==
    (pc # "ReadRaster" /\ InkedLines = {}
     /\ Config.paperReduction = "TmPaperReductionOff") =>
        /\ pc = "EndPage"
        /\ BandCalls = <<>>
        /\ log = <<FeedEntry(pageHeader.cupsHeight)>>
        /\ out = FeedBytes(pageHeader.cupsHeight)

C8_Witness ==
    /\ pc = "EndPage"
    /\ InkedLines = {}
    /\ Config.paperReduction = "TmPaperReductionOff"
    /\ pageHeader.cupsHeight = 3
    /\ out = <<ESC, 74, 3>>

(***************************************************************************)
(* C9: for a page whose bitmap is all zero bytes and a mode other than     *)
(* Off, reading the page and WriteRaster emit nothing and make no band or  *)
(* feed call; StartPage still emits the page-start command and the         *)
(* page-start user file, and EndPage the page-end user file and the eject  *)
(* command.                                                                *)
(***************************************************************************)
CurrentPageBlank ==
    /\ pc \in {"StartPage", "ReadRaster", "EndPage"}
    /\ i + Len(rasterIn) = pageHeader.cupsHeight
    /\ \A k \in 1..Len(rasterIn) : \A x \in 1..Len(rasterIn[k]) : rasterIn[k][x] = 0
    /\ \A k \in 1..(pageHeader.cupsBytesPerLine * i) : p_pageBuffer.mem[k] = 0

UserFileBytes(f) == IF f.state = "ok" THEN f.data ELSE <<>>

C10_PaperReductionPolicy ==
    (WriteRasterReturned /\ pc = "EndPage" /\ InkedLines # {}) =>
        LET mode == Config.paperReduction
            top == Least(InkedLines)
            bottom == Greatest(InkedLines)
            topFeed == IF mode \in {"TmPaperReductionOff", "TmPaperReductionBottom"}
                       THEN <<FeedEntry(top)>> ELSE <<>>
            bottomFeed == IF mode \in {"TmPaperReductionOff", "TmPaperReductionTop"}
                          THEN <<FeedEntry(pageHeader.cupsHeight - (bottom + 1))>>
                          ELSE <<>>
            bands == Concat([k \in 1..Len(BandCalls) |->
                                <<BandCalls[k], FeedEntry(BandHeight)>>])
        IN /\ Len(BandCalls) >= 1
           /\ log = topFeed \o bands \o bottomFeed
           /\ out = LogBytes

C10_Witness ==
    /\ pc = "EndPage"
    /\ Config.paperReduction = "TmPaperReductionBottom"
    /\ pageHeader.cupsHeight = 5
    /\ InkedLines = {2, 3}
    /\ Len(log) = 3
    /\ log[1] = FeedEntry(2)
    /\ log[2].op = "WriteBand"
    /\ log[3] = FeedEntry(BandHeight)

(***************************************************************************)
(* C11: feed chunking.  A FeedPaper call whose integer distance is d       *)
(* writes nothing when d = 0; otherwise it writes ESC J commands whose     *)
(* distance bytes are each in 1..255, all but the last equal to 255, and   *)
(* sum to d, one WriteData call per command.                               *)
(***************************************************************************)
C11_FeedChunking ==
    [][LET d == (log'[Len(log')].n * Config.v_motionUnit) \div pageHeader.HWResolution1
           added == SubSeq(out', Len(out) + 1, Len(out'))
           k == Len(added) \div 3
       IN /\ Len(out') >= Len(out)
          /\ SubSeq(out', 1, Len(out)) = out
          /\ Len(added) = 3 * k
          /\ d = 0 => added = <<>>
          /\ \A j \in 1..k :
                /\ added[3 * j - 2] = ESC
                /\ added[3 * j - 1] = 74
                /\ added[3 * j] \in 1..255
                /\ j < k => added[3 * j] = 255
          /\ FeedDistances(added) = d
          /\ calls' = calls + k]_vars

C11_Witness ==
    /\ pc = "FeedPaper"
    /\ Config.v_motionUnit = 255
    /\ pageHeader.HWResolution1 = 2
    /\ log = <<FeedEntry(3)>>
    /\ out = <<ESC, 74, 255, ESC, 74, 127>>

(***************************************************************************)
(* C12: the exit status.  When main has returned, the status is 0 exactly  *)
(* when its result is EPTMD_SUCCESS, -2 exactly when the result is         *)
(* EPTMD_CANCEL, and -1 for every other result (every numeric error code); *)
(* the three statuses are pairwise distinct.                               *)
(***************************************************************************)
C12_ExitStatus ==
    pc = "Done" =>
        /\ exitStatus \in {0, -1, -2}
        /\ exitStatus = 0 <=> result = EPTMD_SUCCESS
        /\ exitStatus = -2 <=> result = EPTMD_CANCEL
        /\ exitStatus = -1 <=> result \notin {EPTMD_SUCCESS, EPTMD_CANCEL}

C12_Witness ==
    /\ pc = "Done"
    /\ result = 3302
    /\ exitStatus = -1
    /\ g_TmCanceled = 1

(***************************************************************************)
(* C13: configuration errors.  When a motion unit is missing or its value  *)
(* is outside 1..255, or the paper-reduction or buzzer/drawer choice is    *)
(* missing or not one of the known ones, Init fails: StartJob is not       *)
(* entered, no byte is written, and the process ends with status -1.       *)
(***************************************************************************)
InRange(l) == l.high = 0 /\ 1 <= l.low /\ l.low <= 255

ConfigurationError(ppd) ==
    \/ ~ppd.hasHori
    \/ ~InRange(ppd.hori)
    \/ ~ppd.hasVert
    \/ ~InRange(ppd.vert)
    \/ ppd.reduction \notin {"Off", "Top", "Bottom", "Both"}
    \/ ppd.buzzer \notin {"NotUsed", "InternalBuzzer", "ExternalBuzzer", "OpenDrawer1",
                          "OpenDrawer2"}

C13_ConfigErrorsAbort ==
    (pc # "Init" /\ ConfigurationError(env.ppd)) =>
        /\ pc \in {"Exit", "Done"}
        /\ result \notin {EPTMD_SUCCESS, EPTMD_CANCEL}
        /\ out = <<>>
        /\ calls = 0
        /\ pc = "Done" => exitStatus = -1

(***************************************************************************)
(* C14: short scanline read.  When the raster stream has no full scanline  *)
(* left for a scanline ReadRaster is about to read, ReadRaster stops at    *)
(* that scanline with 3302 and writes nothing; from then on no page header *)
(* is read, no feed or band call is made, the only WriteData calls are     *)
(* those of EndJob, and the process ends with status -1.                   *)
(***************************************************************************)
C14_ShortReadIsFatal ==
    /\ [][/\ (pc = "ReadRaster" /\ i < pageHeader.cupsHeight /\ rasterIn = <<>>
              /\ g_TmCanceled = 0 /\ g_TmCanceled' = 0) =>
                /\ result' = 3302
                /\ pc' = "EndJob"
                /\ i' = i
                /\ out' = out
                /\ calls' = calls
          /\ result = 3302 =>
                /\ result' = 3302
                /\ pages' = pages
                /\ i' = i
                /\ log' = log
                /\ calls' # calls => pc = "EndJob"
                /\ out' # out => pc = "EndJob"]_vars
    /\ []((pc = "Done" /\ result = 3302) => exitStatus = -1)

C14_Witness ==
    /\ pc = "Done"
    /\ result = 3302
    /\ exitStatus = -1
    /\ pages = 2
    /\ i = 1
    /\ pageHeader.cupsHeight = 2

(***************************************************************************)
(* C15: unsupported depth.  When the header DoJob reads has a pixel depth  *)
(* other than 1, DoJob stops with 2001 without writing a byte and without  *)
(* allocating a buffer; from then on no page header is read, no buffer is  *)
(* allocated, no feed or band call is made, the only WriteData calls are   *)
(* those of EndJob, and the process ends with status -1.                   *)
(***************************************************************************)
C15_DepthIsChecked ==
    /\ [][/\ (pc = "ReadHeader" /\ pages' = pages + 1
              /\ pageHeader'.cupsBitsPerPixel # 1) =>
                /\ result' = 2001
                /\ pc' = "EndJob"
                /\ out' = out
                /\ calls' = calls
                /\ p_pageBuffer' = p_pageBuffer
          /\ result = 2001 =>
                /\ result' = 2001
                /\ pages' = pages
                /\ log' = log
                /\ p_pageBuffer'.valid => p_pageBuffer' = p_pageBuffer
                /\ calls' # calls => pc = "EndJob"
                /\ out' # out => pc = "EndJob"]_vars
    /\ []((pc = "Done" /\ result = 2001) => exitStatus = -1)

C15_Witness ==
    /\ pc = "Done"
    /\ result = 2001
    /\ exitStatus = -1
    /\ pages = 1
    /\ pageHeader.cupsBitsPerPixel = 8
    /\ env = DefaultEnv
    /\ Len(out) = 24

(***************************************************************************)
(* C16: the page buffer fits the page.  While a page is processed, the     *)
(* buffer has exactly cupsHeight * cupsBytesPerLine bytes of that page's   *)
(* header, no scanline is copied past its end, and the process is not      *)
(* brought down by such a copy.                                            *)
(***************************************************************************)
C16_BufferFitsPage ==
    /\ pc \in {"StartPage", "ReadRaster", "BandLoop", "EndPage"} =>
            /\ p_pageBuffer.valid
            /\ p_pageBuffer.size = pageHeader.cupsHeight * pageHeader.cupsBytesPerLine
    /\ Len(p_pageBuffer.mem) <= p_pageBuffer.size
    /\ pc # "Crashed"

(***************************************************************************)
(* C17: empty page.  When the header DoJob has read has 1 bit per pixel    *)
(* and cupsHeight * cupsBytesPerLine is not positive, the allocation       *)
(* fails: the page is not processed, DoJob stops with 2002 and the process *)
(* ends with status -1.                                                    *)
(***************************************************************************)
C17_EmptyPageFailsAllocation ==
    (pages > 0 /\ pageHeader.cupsBitsPerPixel = 1
     /\ pageHeader.cupsHeight * pageHeader.cupsBytesPerLine <= 0) =>
        /\ pc \in {"EndJob", "Exit", "Done"}
        /\ result = 2002
        /\ pc = "Done" => exitStatus = -1

(***************************************************************************)
(* C18: the page buffer is released.  When main has returned, with         *)
(* success, failure or cancellation, no page buffer is allocated; the      *)
(* buffer is released only by DoJob after its page loop, a step taken once *)
(* per job, and it is neither allocated nor released after that step.      *)
(***************************************************************************)
C18_BufferReleased ==
    /\ []((pc = "Done" \/ pc = "Exit") => ~p_pageBuffer.valid)
    /\ [][/\ (p_pageBuffer.valid /\ ~p_pageBuffer'.valid) => (pc = "EndJob" /\ pc' = "Exit")
          /\ pc \in {"Exit", "Done"} => (p_pageBuffer' = p_pageBuffer /\ pc' # "EndJob")
          /\ pc = "EndJob" => pc' \in {"EndJob", "Exit"}]_vars

C18_Witness ==
    /\ pc = "Done"
    /\ exitStatus = -2
    /\ observed = "ReadRaster"
    /\ i = 1
    /\ p_pageBuffer = NullBuffer

(***************************************************************************)
(* Reading of the output stream as a sequence of commands: the length of   *)
(* the command (or user file) that starts a byte sequence, 0 when none     *)
(* does.  A band command is its 5-byte header and cupsBytesPerLine * 8     *)
(* bytes of data; ESC ( and GS ( commands carry their length.              *)
(***************************************************************************)
IsPrefix(t, b) == Len(t) <= Len(b) /\ SubSeq(b, 1, Len(t)) = t

UserFileLength(b) ==
    LET present == {f \in {"StartJob", "EndJob", "StartPage", "EndPage"} :
                        /\ env.files[f].state = "ok"
                        /\ env.files[f].data # <<>>
                        /\ IsPrefix(env.files[f].data, b)}
    IN IF present = {} THEN 0 ELSE Len(env.files[CHOOSE f \in present : TRUE].data)

CommandLength(b) ==
    IF Len(b) < 2 THEN 0
    ELSE IF b[1] = ESC /\ b[2] = 61 THEN 3
    ELSE IF b[1] = ESC /\ b[2] = 64 THEN 2
    ELSE IF b[1] = ESC /\ b[2] = 99 THEN 4
    ELSE IF b[1] = ESC /\ b[2] = 112 THEN 5
    ELSE IF b[1] = ESC /\ b[2] = 74 THEN 3
    ELSE IF b[1] = ESC /\ b[2] = 70 THEN 4
    ELSE IF b[1] = ESC /\ b[2] = 42 THEN 5 + pageHeader.cupsBytesPerLine * BandHeight
    ELSE IF b[1] \in {ESC, GS} /\ b[2] = 40
    THEN (IF Len(b) < 5 THEN 0 ELSE 5 + b[4] + 256 * b[5])
    ELSE UserFileLength(b)

RECURSIVE WholeCommands(_)
WholeCommands(b) ==
    IF b = <<>> THEN TRUE
    ELSE LET n == CommandLength(b) IN
         /\ 0 < n
         /\ n <= Len(b)
         /\ WholeCommands(SubSeq(b, n + 1, Len(b)))

(***************************************************************************)
(* C19: cancellation does not cut a command.  When the sink took every     *)
(* write whole and the process ends with the cancellation status, the      *)
(* output stream is a concatenation of whole commands: every band header   *)
(* has its cupsBytesPerLine * 8 bytes of data, every feed its distance     *)
(* byte, every control sequence all its bytes.                             *)
(***************************************************************************)
C19_WholeCommandsOnCancel ==
    (pc = "Done" /\ exitStatus = -2 /\ faults = 0) => WholeCommands(out)

C19_Witness ==
    /\ pc = "Done"
    /\ exitStatus = -2
    /\ faults = 0
    /\ observed = "WriteRaster"
    /\ Len(BandCalls) = 1
    /\ env.files = UserFiles
    /\ WholeCommands(out)

C21_FlagReadAfterPageStart ==
    [][g_TmCanceled # 0 =>
        /\ (pc = "StartPage" /\ faults' = faults) =>
              /\ out' = out \o <<GS, 40, 71, 2, 0, 84, 1>>
                            \o UserFileBytes(env.files.StartPage)
              /\ pc' = "ReadRaster"
              /\ i' = 0
        /\ (pc = "ReadRaster" /\ i = 0) =>
              /\ out' = out
              /\ rasterIn' = rasterIn
              /\ p_pageBuffer' = p_pageBuffer
              /\ IF pageHeader.cupsHeight > 0
                 THEN result' = EPTMD_CANCEL /\ pc' = "EndJob"
                 ELSE result' = EPTMD_SUCCESS /\ pc' = "EndPage"
        /\ pc = "EndPage" =>
              /\ out' = out
              /\ result' = EPTMD_CANCEL
              /\ pc' = "EndJob"]_vars

C21_Witness ==
    /\ pc = "EndJob"
    /\ g_TmCanceled = 1
    /\ result = EPTMD_CANCEL
    /\ observed = "ReadRaster"
    /\ i = 0
    /\ env.files = UserFiles
    /\ out = <<GS, 40, 71, 2, 0, 84, 1, 37, 38>>

\* C21 as stated: with the flag set when the page begins, no byte of the page is emitted.
C21_AsStated ==
    [][(pc = "StartPage" /\ g_TmCanceled # 0) => out' = out]_vars

(***************************************************************************)
(* C22: band slicing.  When WriteRaster has returned success for a page    *)
(* whose inked scanlines run from top to bottom (L = bottom - top + 1), it *)
(* has made exactly ceil(L/8) WriteBand calls; call k starts at scanline   *)
(* top + 8(k-1); every call but the last takes 8 scanlines, the last takes *)
(* L - 8(ceil(L/8) - 1), a number in 1..8; the ranges are consecutive,     *)
(* disjoint, cover [top, bottom] exactly, and none reaches past bottom.    *)
(***************************************************************************)
C22_BandSlicing ==
    (WriteRasterReturned /\ pc = "EndPage" /\ InkedLines # {}) =>
        LET top == Least(InkedLines)
            bottom == Greatest(InkedLines)
            L == bottom - top + 1
            count == (L + BandHeight - 1) \div BandHeight
        IN /\ Len(BandCalls) = count
           /\ \A k \in 1..count :
                /\ BandCalls[k].at = top + BandHeight * (k - 1)
                /\ BandCalls[k].n = IF k < count THEN BandHeight
                                    ELSE L - BandHeight * (count - 1)
                /\ BandCalls[k].n \in 1..BandHeight
                /\ top <= BandCalls[k].at
                /\ BandCalls[k].at + BandCalls[k].n - 1 <= bottom
                /\ BandCalls[k].raw = MakeSendData(p_pageBuffer.mem, pageHeader.cupsBytesPerLine,
                                                   BandCalls[k].at, BandCalls[k].n)
           /\ BandCalls[count].at + BandCalls[count].n = bottom + 1

C22_Witness ==
    /\ pc = "EndPage"
    /\ result = EPTMD_SUCCESS
    /\ pageHeader.cupsHeight = 9
    /\ pageHeader.cupsBytesPerLine = 1
    /\ InkedLines = {0, 8}
    /\ Len(BandCalls) = 2
    /\ BandCalls[1].at = 0 /\ BandCalls[1].n = 8
    /\ BandCalls[2].at = 8 /\ BandCalls[2].n = 1

(***************************************************************************)
(* Reading of a whole job's output stream.  PlanBytes is what a plan puts  *)
(* on a sink that takes every write whole.  PageRaster follows the bytes   *)
(* WriteRaster wrote for one page against the calls in the log: an         *)
(* optional feed, then bands at increasing scanlines, each followed by its *)
(* feed of 8 scanlines, then an optional feed.  PagesStream follows the    *)
(* pages: page-start bytes, the page's raster, page-end bytes with the     *)
(* eject command, and after the last page the job-end bytes.               *)
(***************************************************************************)
PlanBytes(plan) == Concat([k \in 1..Len(plan) |-> plan[k].buf])

Drop(b, n) == SubSeq(b, n + 1, Len(b))

EmittingCalls == SelectSeq(log, LAMBDA e : BytesOf(e) # <<>>)

RasterStep(st, e) ==
    IF e.op = "WriteBand"
    THEN (IF st.s \in {"start", "top", "fed"} /\ e.at > st.at
          THEN [s |-> "band", at |-> e.at] ELSE [s |-> "bad", at |-> st.at])
    ELSE IF st.s = "start" THEN [st EXCEPT !.s = "top"]
    ELSE IF st.s = "band" /\ e.n = BandHeight THEN [st EXCEPT !.s = "fed"]
    ELSE IF st.s = "fed" THEN [st EXCEPT !.s = "bottom"]
    ELSE [st EXCEPT !.s = "bad"]

RECURSIVE PageRaster(_, _, _)
PageRaster(b, lg, st) ==
    IF Len(b) >= 2 /\ b[1] = ESC /\ b[2] \in {74, 42}
    THEN IF lg = <<>> THEN [ok |-> FALSE, b |-> b, lg |-> lg]
         ELSE LET bytes == BytesOf(Head(lg))
                  next == RasterStep(st, Head(lg))
              IN IF IsPrefix(bytes, b) /\ next.s # "bad"
                 THEN PageRaster(Drop(b, Len(bytes)), Tail(lg), next)
                 ELSE [ok |-> FALSE, b |-> b, lg |-> lg]
    ELSE [ok |-> st.s \in {"start", "top", "fed", "bottom"}, b |-> b, lg |-> lg]

RECURSIVE PagesStream(_, _, _)
PagesStream(b, lg, n) ==
    IF n = 0 THEN b = PlanBytes(EndJobPlan(env.files)) /\ lg = <<>>
    ELSE LET pageStart == PlanBytes(StartPagePlan(env.files))
             pageEnd == PlanBytes(EndPagePlan(env.files))
             r == PageRaster(Drop(b, Len(pageStart)), lg, [s |-> "start", at |-> -1])
         IN /\ IsPrefix(pageStart, b)
            /\ r.ok
            /\ IsPrefix(pageEnd, r.b)
            /\ PagesStream(Drop(r.b, Len(pageEnd)), r.lg, n - 1)

JobStream ==
    LET jobStart == PlanBytes(StartJobPlan(Config, env.files))
    IN /\ IsPrefix(jobStart, out)
       /\ PagesStream(Drop(out, Len(jobStart)), EmittingCalls, pages)

(***************************************************************************)
(* C23: output ordering.  When the job has ended with success, the output  *)
(* stream is the job-initialization commands, then for each page in source *)
(* order the page start, the optional top feed, the bands in increasing    *)
(* scanline order each followed by its feed, the optional bottom feed, the *)
(* page epilogue and one eject command, then the job epilogue; a job       *)
(* without pages emits job initialization and job epilogue only.           *)
(***************************************************************************)
C23_OutputOrdering ==
    (pc = "Done" /\ exitStatus = 0) => JobStream

\* The same for the jobs whose every write(2) call took the whole buffer.
C23_OrderingOnPlainSink ==
    (pc = "Done" /\ exitStatus = 0 /\ faults = 0) => JobStream

C23_PlainSinkWitness ==
    /\ pc = "Done"
    /\ exitStatus = 0
    /\ faults = 0
    /\ pages = 2
    /\ env.files = UserFiles
    /\ Len(BandCalls) = 4
    /\ JobStream

(***************************************************************************)
(* C24: a failure in StartJob.  When StartJob has returned one of its      *)
(* failure codes (2101..2105 for the configuration commands, 2106 for the  *)
(* drawer pulse, 2107 for the buzzer pulse, 2108 for StartJob.prn), DoJob  *)
(* does not enter its page loop: no page header has been read, no page     *)
(* buffer is allocated, no feed or band call was made, the stream holds no *)
(* page-start, feed, band or eject command, the result stays that code     *)
(* and main returns -1.                                                    *)
(***************************************************************************)
HoldsPageCommand(b) ==
    \/ \E k \in 1..(Len(b) - 1) : b[k] = ESC /\ b[k + 1] \in {74, 42, 70}
    \/ \E k \in 1..(Len(b) - 6) : SubSeq(b, k, k + 6) = <<GS, 40, 71, 2, 0, 84, 1>>

C24_StartJobFailureAborts ==
    result \in 2101..2108 =>
        /\ pc \in {"EndJob", "Exit", "Done"}
        /\ pages = 0
        /\ pageHeader = ZeroHeader
        /\ ~p_pageBuffer.valid
        /\ log = <<>>
        /\ ~HoldsPageCommand(out)
        /\ pc = "Done" => exitStatus = -1

C24_Witness ==
    /\ pc = "Done"
    /\ result = 2107
    /\ exitStatus = -1
    /\ Config.buzzerControl = "TmBuzzerExternal"
    /\ pages = 0
    /\ Len(out) = 24

(***************************************************************************)
(* C25: user files.  When WriteUserFile has returned: for an absent file   *)
(* it succeeded without a write; for a present file a success means that   *)
(* the sink holds the file's bytes, all of them, in order and once; a file *)
(* that cannot be opened or read, and a write that fails, make it fail.    *)
(***************************************************************************)
C25_UserFileInjection ==
    pc = "Returned" =>
        LET f == env.files.StartJob IN
        /\ f.state = "ENOENT" => (result = EPTMD_SUCCESS /\ out = <<>> /\ calls = 0)
        /\ (f.state = "ok" /\ result = EPTMD_SUCCESS) => out = f.data
        /\ f.state \notin {"ENOENT", "ok"} => (result = EPTMD_FAILED /\ out = <<>>)
        /\ sinkFailed => result = EPTMD_FAILED
        /\ result \in {EPTMD_SUCCESS, EPTMD_FAILED}

\* The same for the calls whose every write(2) call took the whole buffer.
C25_InjectionOnPlainSink ==
    (pc = "Returned" /\ faults = 0) =>
        LET f == env.files.StartJob IN
        /\ f.state = "ENOENT" => (result = EPTMD_SUCCESS /\ out = <<>> /\ calls = 0)
        /\ f.state = "ok" => (result = EPTMD_SUCCESS /\ out = f.data
                              /\ calls = (Len(f.data) + UserFileChunk - 1) \div UserFileChunk)
        /\ f.state \notin {"ENOENT", "ok"} => (result = EPTMD_FAILED /\ out = <<>>)

C25_PlainSinkWitness ==
    /\ pc = "Returned"
    /\ faults = 0
    /\ env.files.StartJob.data = LongFile
    /\ result = EPTMD_SUCCESS
    /\ calls = 2
    /\ out = LongFile

(***************************************************************************)
(* C26: the feed after a band.  Every WriteBand call, whatever the number  *)
(* of scanlines of its band, is followed by a feed computed for 8          *)
(* scanlines, and the bytes written are those of the calls.  So when       *)
(* WriteRaster has returned success in mode Off for a page whose inked     *)
(* scanlines run from top to bottom (L = bottom - top + 1), the scanline   *)
(* counts given to FeedPaper total top + 8 * ceil(L/8) + (height - bottom  *)
(* - 1), which is the page height exactly when L is a multiple of 8.       *)
(***************************************************************************)
C26_EightLineFeedAfterBand ==
    /\ \A k \in 1..Len(log) :
          log[k].op = "WriteBand" =>
              /\ k < Len(log)
              /\ log[k + 1] = FeedEntry(BandHeight)
    /\ out = LogBytes
    /\ (WriteRasterReturned /\ pc = "EndPage" /\ InkedLines # {}
        /\ Config.paperReduction = "TmPaperReductionOff") =>
          LET top == Least(InkedLines)
              bottom == Greatest(InkedLines)
              L == bottom - top + 1
              total == top + BandHeight * ((L + BandHeight - 1) \div BandHeight)
                           + (pageHeader.cupsHeight - bottom - 1)
          IN /\ ScanlinesFed = total
             /\ (ScanlinesFed = pageHeader.cupsHeight) <=> (L % BandHeight = 0)

C26_Witness ==
    /\ pc = "EndPage"
    /\ Config.paperReduction = "TmPaperReductionOff"
    /\ Config.v_motionUnit = 1
    /\ pageHeader.cupsHeight = 3
    /\ pageHeader.cupsBytesPerLine = 1
    /\ InkedLines = {1}
    /\ ScanlinesFed = 10
    /\ out = <<ESC, 74, 1, ESC, 42, 1, 8, 0, 128, 0, 0, 0, 0, 0, 0, 0, ESC, 74, 8, ESC, 74, 1>>

(***************************************************************************)
(* C27: payload size and declared width.  When WriteBand has returned, the *)
(* number of data bytes after the 5-byte header of its band command equals *)
(* the column count the header declares in its two little-endian width     *)
(* bytes, for every page header with cupsBytesPerLine * 8 >= cupsWidth.    *)
(***************************************************************************)
C27_PayloadMatchesWidth ==
    pc = "Returned" => Len(out) - 5 - Len(FeedBytes(BandHeight)) = out[4] + 256 * out[5]

\* What the code does: the header declares cupsWidth mod 65536, the data are
\* cupsBytesPerLine * 8 bytes whatever the width.
C27_PayloadAndHeader ==
    pc = "Returned" =>
        /\ SubSeq(out, 1, 3) = <<ESC, 42, 1>>
        /\ out[4] + 256 * out[5] = pageHeader.cupsWidth % 65536
        /\ Len(log[1].data) = pageHeader.cupsBytesPerLine * 8
        /\ out = BandCommand(pageHeader) \o log[1].data \o FeedBytes(BandHeight)

C27_PayloadAndHeaderWitness ==
    /\ pc = "Returned"
    /\ pageHeader.cupsWidth = 13
    /\ out[4] = 13
    /\ out[5] = 0
    /\ Len(log[1].data) = 16

(***************************************************************************)
(* C28: no forbidden pair in a band's data.  When WriteBand has returned,  *)
(* the data it wrote hold at no two adjacent positions the byte 0x10       *)
(* followed by 0x04, 0x05 or 0x14, nor the byte 0x1B followed by 0x3D.     *)
(***************************************************************************)
NoForbiddenPair(data) ==
    \A k \in 1..(Len(data) - 1) :
        /\ ~(data[k] = 16 /\ data[k + 1] \in {4, 5, 20})
        /\ ~(data[k] = 27 /\ data[k + 1] = 61)

C28_NoForbiddenPair ==
    pc = "Returned" => NoForbiddenPair(log[1].data)

\* What holds of the scan itself: started at index 0 it leaves no forbidden pair,
\* and a rewritten byte makes none with the byte before it.
C28_NoPairAfterScanFromStart ==
    pc = "Returned" =>
        NoForbiddenPair(AvoidDisturbingData(pageHeader.cupsBytesPerLine, log[1].raw,
                                            0, BandHeight, 0))

C28_ScanFromStartWitness ==
    /\ pc = "Returned"
    /\ SubSeq(log[1].raw, 1, 2) = <<27, 61>>
    /\ SubSeq(log[1].data, 1, 2) = <<59, 61>>

(***************************************************************************)
(* C29: a cancellation is never reported as success.  The flag, once set,  *)
(* stays set; when DoJob has returned with the flag set, its result is not *)
(* success and main does not return 0; and the stream of a job that ends   *)
(* with the cancellation status holds no byte of the job epilogue          *)
(* (EndJob.prn).                                                           *)
(***************************************************************************)
C29_CancelNeverSuccess ==
    /\ [][g_TmCanceled # 0 => g_TmCanceled' = g_TmCanceled]_vars
    /\ []((pc \in {"Exit", "Done"} /\ g_TmCanceled # 0) =>
             /\ result # EPTMD_SUCCESS
             /\ observed # "none"
             /\ pc = "Done" => exitStatus \in {-1, -2})
    /\ []((pc = "Done" /\ exitStatus = -2) =>
             /\ g_TmCanceled # 0
             /\ \A k \in 1..Len(out) :
                    \A j \in 1..Len(env.files.EndJob.data) : out[k] # env.files.EndJob.data[j])

C29_Witness ==
    /\ pc = "Done"
    /\ g_TmCanceled = 1
    /\ observed = "EndJob"
    /\ exitStatus = -2
    /\ pages = 1
    /\ env.files = UserFiles
    /\ EndsWith(out, <<39, 40, ESC, 70, 0, FF>>)

(***************************************************************************)
(* C30: the first result other than success wins.  Once the result is not  *)
(* success, whichever stage returned it (StartJob, StartPage, ReadRaster,  *)
(* WriteRaster, EndPage, or Init and DoJob's own tests), it never changes  *)
(* again: no further page header is read, EndJob runs and its result is    *)
(* dropped, also when the cancellation flag is set by then, and the status *)
(* main returns is the one of that first result.                           *)
(***************************************************************************)
C30_FirstFailureWins ==
    [][/\ result # EPTMD_SUCCESS =>
            /\ result' = result
            /\ pages' = pages
            /\ pageHeader' = pageHeader
            /\ rasterIn' = rasterIn
            /\ log' = log
            /\ pc \in {"EndJob", "Exit", "Done"}
            /\ pc' \in {"EndJob", "Exit", "Done"}
       /\ (result = EPTMD_SUCCESS /\ result' # EPTMD_SUCCESS) =>
            pc' = IF pc \in {"Init", "EndJob"} THEN "Exit" ELSE "EndJob"
       /\ pc' = "Done" =>
            exitStatus' = IF result' = EPTMD_SUCCESS THEN 0
                          ELSE IF result' = EPTMD_CANCEL THEN -2 ELSE -1]_vars

C30_Witness ==
    /\ pc = "Done"
    /\ result = 3404
    /\ exitStatus = -1
    /\ g_TmCanceled = 1
    /\ observed = "EndJob"
    /\ sinkFailed
    /\ pages = 1

====
